---- MODULE Spec2Model ----
(***************************************************************************)
(* Monopoly-OS: the game server (server.c, game_state.c), the round-robin  *)
(* scheduler module (scheduler.c), the logger (logger.c), the named        *)
(* shared regions (shared_memory.c) and the sync wrappers (sync.c) as      *)
(* state machines.                                                         *)
(*                                                                         *)
(* SpecServer: the accept loop of main() and one handle_client process per *)
(*   accepted connection, sharing one GameState (shm) under game_mutex,    *)
(*   score_mutex and turn_cond.                                            *)
(* SpecSched: callers of the scheduler API and the scheduler thread,       *)
(*   sharing one SchedulerState under scheduler_lock.                      *)
(* SpecGameApi: SpecServer plus direct calls of advance_turn.               *)
(* SpecRuns: SpecServer plus stopping and restarting the server, with the  *)
(*   scores file written by save_scores and read back by load_scores.      *)
(* SpecBoth: the server and the scheduler module in one program, each      *)
(*   stepping while the other rests in its initial state.                  *)
(* SpecSchedFair: SpecSched with weak fairness of the scheduler thread     *)
(*   and of the callers' steps.                                            *)
(* SpecLogger: producers calling logger_log, the message queue and the     *)
(*   consumer thread; SpecLoggerFair adds weak fairness of the consumer    *)
(*   thread and of pthread_join.                                           *)
(* SpecShm: init/attach/detach/clean of a named shared region and the      *)
(*   player processes' writes into it.                                     *)
(* SpecSync: two processes calling trylock/unlock on one mutex and         *)
(*   trywait/wait/post on one semaphore.                                   *)
(* SpecSchedApi: SpecSched from before scheduler_init, with calls of       *)
(*   scheduler_init and of the unlocked query scheduler_is_my_turn.        *)
(* SpecServerFair: SpecServer with LiveConnects connections and weak       *)
(*   fairness of each handler's own steps and of the accept loop.          *)
(* SpecLapFair: SpecServerFair with clients that always answer and never   *)
(*   disconnect.                                                           *)
(***************************************************************************)
EXTENDS Integers, Sequences, FiniteSets, TLC

(***************************************************************************)
(* Program constants.                                                      *)
(***************************************************************************)
MAX_PLAYERS == 5
MIN_PLAYERS == 3
MAX_CLIENTS == 5
MIN_CLIENTS == 3
START_MONEY == 500
TAX == 50

(***************************************************************************)
(* Bounds of the model.                                                    *)
(*  RoundCap    the lap cap of advance_turn.  The source's literal is 50   *)
(*              (game_state.c:201); the model scales it down so that the   *)
(*              cap is reached inside the explored state space.            *)
(*  MaxConnects how many connections the environment ever opens.           *)
(*  MaxDrops    how many client connections the environment ever breaks.   *)
(*  MaxActions  how many action bytes the clients send in total.            *)
(*  MaxApiCalls how many direct calls of advance_turn are made.            *)
(*  MaxMoves    how far total_moves of the scheduler may grow.             *)
(*  MaxGames    the server is not restarted once total_games reached it.   *)
(***************************************************************************)
RoundCap == 2
MaxConnects == 4
MaxDrops == 2
MaxActions == 6
MaxApiCalls == 1
MaxMoves == 2
MaxGames == 2

Slots == 0 .. (MAX_PLAYERS - 1)

\* board[i].price of init_board; the landing squares the model draws from.
price(i) == 100 + (i * 20)
Squares == {19}

VARIABLES
    shm,          \* the GameState in shared memory
    game_mutex,   \* set of processes holding game_mutex ({} = free)
    score_mutex,  \* set of processes holding score_mutex
    pc,           \* pc[p]: where handle_client(p) is
    action,       \* action[p]: the byte handler p last read from its client
    mpc,          \* where the accept loop of main() is
    player_id,    \* the accept loop's local player_id
    connects,     \* connections accepted so far
    sent,         \* action bytes the clients have sent so far
    drops,        \* connections broken so far
    api,          \* direct calls of advance_turn made so far (SpecGameApi)
    sch,          \* the SchedulerState in shared memory
    scheduler_lock, \* set of processes holding scheduler_lock
    cpc,          \* cpc[c]: where caller c of the scheduler API is
    cop,          \* cop[c]: the call caller c is making, or made last
    sret,         \* sret[c]: what caller c's last call returned
    tpc,          \* where scheduler_thread_main is
    scheduler_state, \* the static pointer scheduler_state: "NULL" or "mapped"
    scores_file,  \* the scores file on disk (SCORES_FILE)
    mq,           \* the log message queue (LOG_MQ_NAME), oldest message first
    log_file,     \* the lines written to the log file, in order
    accepted,     \* history: the messages mq_send has accepted, in order
    log_calls,    \* calls of logger_log made so far
    is_running,   \* is_running[p]: process p's copy of the logger's flag
    forked,       \* whether the child process has been forked
    lpc,          \* lpc[p]: where process p is in the logger API
    lop,          \* the logger call made last ("none" before the first)
    lcaller,      \* the process that made it
    nthreads,     \* consumer threads created and not yet joined
    shm_name,     \* the region the shared memory name stands for (0: no such name)
    region,       \* region[r]: the SharedData held by region r
    mapping,      \* mapping[p]: the region process p has mapped (0: none)
    mlast,        \* the shared memory call made last: function, caller, result
    mtx,          \* a process-shared mutex: the set of its holders
    sem,          \* a process-shared semaphore: its value
    ypc,          \* ypc[p]: whether process p is inside sync_sem_wait
    intr,         \* signals that have interrupted a sem_wait so far
    ylast,        \* the sync call that returned last: function, caller, result
    lret,         \* lret[p]: what p's last logger_init returned
    log_thread,   \* where logger_thread_main is
    buf           \* the consumer's buf: the message it received last

svars == <<shm, game_mutex, score_mutex, pc, action, mpc, player_id, connects, sent, drops>>

schedvars == <<sch, scheduler_lock, cpc, cop, sret, tpc, scheduler_state>>

lgvars == <<mq, log_file, accepted, log_calls, is_running, forked, lpc, lop, lret,
           log_thread, buf, lcaller, nthreads>>

memvars == <<shm_name, region, mapping, mlast>>

syncvars == <<mtx, sem, ypc, intr, ylast>>

\* The state of the components beside the server and the scheduler.
extvars == <<lgvars, memvars, syncvars>>

\* The state of the server, the scheduler and the scores file.
basevars == <<svars, api, schedvars, scores_file>>

vars == <<basevars, extvars>>

(***************************************************************************)
(* GameState                                                               *)
(***************************************************************************)
ZeroPlayer == [money |-> 0, is_active |-> 0, is_bankrupt |-> 0]
ZeroScore == [wins |-> 0, games_played |-> 0]

\* init_shared_memory: a fresh (zero-filled) region with the game fields set.
init_shared_memory ==
    [ game_state |-> "WAITING",
      num_players |-> 0,
      active_player_count |-> 0,
      current_turn |-> 0,
      round |-> 0,
      total_games |-> 0,
      players |-> [i \in Slots |-> ZeroPlayer],
      scores |-> [i \in Slots |-> ZeroScore] ]

\* The do-while loop of advance_turn: step, then repeat while the slot is
\* bankrupt and fewer than MAX_PLAYERS attempts were made.
RECURSIVE next_turn(_, _, _)
next_turn(s, cur, attempts) ==
    LET c1 == (cur + 1) % s.num_players
        a1 == attempts + 1
    IN  IF s.players[c1].is_bankrupt = 1 /\ a1 < MAX_PLAYERS
        THEN next_turn(s, c1, a1)
        ELSE c1

solvent(s) == {i \in 0 .. (s.num_players - 1) : s.players[i].is_bankrupt = 0}

\* last_solvent of advance_turn: the highest solvent index, -1 if none.
last_solvent(s) ==
    IF solvent(s) = {} THEN -1
    ELSE CHOOSE i \in solvent(s) : \A j \in solvent(s) : j <= i

\* The game-over test of advance_turn (on the state after the turn moved).
game_ends(s) ==
    (Cardinality(solvent(s)) = 1 /\ last_solvent(s) >= 0) \/ s.round >= RoundCap

\* advance_turn up to the point where it takes score_mutex: the turn moves,
\* the round is counted, and the game-over test sets game_state.
advance_turn_move(s) ==
    LET t == next_turn(s, s.current_turn, 0)
        s1 == [s EXCEPT !.current_turn = t,
                        !.round = IF t = 0 THEN @ + 1 ELSE @]
    IN  IF game_ends(s1) THEN [s1 EXCEPT !.game_state = "GAME_OVER"] ELSE s1

\* The "richest" loop of advance_turn: strictly greater money replaces.
RECURSIVE richest_from(_, _, _)
richest_from(s, i, best) ==
    IF i >= s.num_players THEN best
    ELSE richest_from(s, i + 1,
            IF s.players[i].money > s.players[best].money THEN i ELSE best)

\* (mutant) on a tie for the greatest money the highest id is taken.
richest_last(s) ==
    CHOOSE i \in 0 .. (s.num_players - 1) :
        \A j \in 0 .. (s.num_players - 1) :
            /\ s.players[j].money <= s.players[i].money
            /\ j > i => s.players[j].money < s.players[i].money

richest(s) == richest_from(s, 1, 0)

\* Who advance_turn credits: the sole solvent player, else the richest.
credited(s) ==
    IF Cardinality(solvent(s)) = 1 /\ last_solvent(s) >= 0
    THEN last_solvent(s) ELSE richest(s)

\* The score update advance_turn makes under score_mutex.
advance_turn_scores(s) ==
    LET w == credited(s)
    IN  [s EXCEPT !.scores = [i \in Slots |->
                     [wins |-> IF i = w THEN @[i].wins + 1 ELSE @[i].wins,
                      games_played |-> IF i < s.num_players
                                       THEN @[i].games_played + 1
                                       ELSE @[i].games_played]],
                  !.total_games = @ + 1]

\* get_winner: the first slot that is solvent and active, -1 if none.
get_winner(s) ==
    LET c == {i \in 0 .. (s.num_players - 1) :
                s.players[i].is_bankrupt = 0 /\ s.players[i].is_active = 1}
    IN  IF c = {} THEN -1 ELSE CHOOSE i \in c : \A j \in c : i <= j

(***************************************************************************)
(* The scores file: save_scores writes it, load_scores reads it back       *)
(***************************************************************************)
\* scores[i].name as init_shared_memory sets it ("Player %d"), as the
\* sequence of its whitespace-separated words.  Nothing else writes a name
\* unless load_scores reads one.
score_name(i) == <<"Player", ToString(i)>>

\* No file on disk: fopen(SCORES_FILE, "r") fails.
NoScoresFile ==
    [exists |-> FALSE, total_games |-> 0,
     lines |-> [i \in Slots |-> [id |-> i, name |-> <<>>, wins |-> 0, games |-> 0]]]

\* save_scores: "Total Games: %d\n", then one line per slot,
\* "Player %d: %s - %d wins / %d games\n".
save_scores(s) ==
    [exists |-> TRUE, total_games |-> s.total_games,
     lines |-> [i \in Slots |->
                  [id |-> i, name |-> score_name(i),
                   wins |-> s.scores[i].wins,
                   games |-> s.scores[i].games_played]]]

\* How many conversions fscanf("Player %d: %31s - %d wins / %d games\n")
\* assigns on a line that save_scores wrote: %d takes the id, %31s takes one
\* word (of the name, or the "-" when the name is empty), and the literal
\* "-" then has to match what follows that word.
fscanf_line(line) == IF Len(line.name) = 1 THEN 4 ELSE 2

\* Whether the stream still stands at the start of line i: every line
\* before it was read to its end.
RECURSIVE aligned(_, _)
aligned(f, i) ==
    IF i = 0 THEN TRUE
    ELSE aligned(f, i - 1) /\ fscanf_line(f.lines[i - 1]) = 4

\* load_scores: total_games is read first; scores[i] is assigned only when
\* the i-th fscanf assigns all four conversions.
load_scores(s, f) ==
    IF ~f.exists THEN s
    ELSE [s EXCEPT !.total_games = f.total_games,
                   !.scores = [i \in Slots |->
                       IF aligned(f, i) /\ fscanf_line(f.lines[i]) = 4
                       THEN [wins |-> f.lines[i].wins,
                             games_played |-> f.lines[i].games]
                       ELSE @[i]]]

(***************************************************************************)
(* handle_client(p)                                                        *)
(***************************************************************************)
\* (mutant) the wait loop without the test of current_turn.
must_wait_any_turn(s, p) ==
    s.game_state # "PLAYING" /\ s.game_state # "GAME_OVER"

\* The wait loop's condition (server.c:91-92): keep waiting.
must_wait(s, p) ==
    (s.game_state # "PLAYING" \/ s.current_turn # p) /\ s.game_state # "GAME_OVER"

\* (mutant) a lock call that does not wait for the mutex.
lock_without_waiting(m) == TRUE

\* pthread_mutex_lock(m) returns to its caller once nobody holds m
\* (m is the set of holders).
can_lock(m) == m = {}

\* (mutant) a broadcast that wakes nobody.
broadcast_lost(f) == f

\* pthread_cond_broadcast(turn_cond): every handler blocked in cond_wait is
\* woken and has to re-acquire game_mutex.
broadcast(f) == [q \in Slots |-> IF f[q] = "waiting" THEN "woken" ELSE f[q]]

\* Lines 71-116, and the return from pthread_cond_wait (93): take game_mutex
\* and look at the game.  (Every step that takes game_mutex runs to its next
\* unlock, wait or socket call in one action: nothing another process does
\* can be seen in between.)
\*  - game over seen at the top of the loop (74): go on to write the result
\*    packet, still holding game_mutex;
\*  - not this player's turn (91): wait on turn_cond, releasing the mutex;
\*  - game over seen after the wait (97): unlock and start over;
\*  - a bankrupt player on its turn (103): pass the turn on;
\*  - otherwise unlock (116) and go on to notify the client.
HTurn(p) ==
    /\ pc[p] \in {"top", "woken"}
    /\ can_lock(game_mutex)
    /\ IF pc[p] = "top" /\ shm.game_state = "GAME_OVER"
       THEN /\ pc' = [pc EXCEPT ![p] = "write_over"]
            /\ game_mutex' = {p}
       ELSE IF must_wait(shm, p)
       THEN /\ pc' = [pc EXCEPT ![p] = "waiting"]
            /\ UNCHANGED game_mutex
       ELSE IF shm.game_state = "GAME_OVER"
       THEN /\ pc' = [pc EXCEPT ![p] = "top"]
            /\ UNCHANGED game_mutex
       ELSE IF shm.players[p].is_bankrupt = 1
       THEN /\ pc' = [pc EXCEPT ![p] = "advance"]
            /\ game_mutex' = {p}
       ELSE /\ pc' = [pc EXCEPT ![p] = "write_turn"]
            /\ UNCHANGED game_mutex
    /\ UNCHANGED <<shm, score_mutex, action, mpc, player_id, connects, sent, drops>>
    /\ UNCHANGED <<api, schedvars, scores_file, extvars>>

\* (mutant) the handler leaves its loop at line 87 without the unlock of
\* line 86.
HWriteOverLocked(p) ==
    /\ pc[p] = "write_over"
    /\ pc' = [pc EXCEPT ![p] = "done"]
    /\ UNCHANGED <<shm, game_mutex, score_mutex, action, mpc, player_id, connects, sent, drops>>
    /\ UNCHANGED <<api, schedvars, scores_file, extvars>>

\* Line 85: the result packet is written while game_mutex is held; then the
\* mutex is released and the handler leaves its loop.
HWriteOver(p) ==
    /\ pc[p] = "write_over"
    /\ game_mutex' = {}
    /\ pc' = [pc EXCEPT ![p] = "done"]
    /\ UNCHANGED <<shm, score_mutex, action, mpc, player_id, connects, sent, drops>>
    /\ UNCHANGED <<api, schedvars, scores_file, extvars>>

\* Line 118: the turn notification, written after the mutex was released.
HWriteTurn(p) ==
    /\ pc[p] = "write_turn"
    /\ pc' = [pc EXCEPT ![p] = "read"]
    /\ UNCHANGED <<shm, game_mutex, score_mutex, action, mpc, player_id, connects, sent, drops>>
    /\ UNCHANGED <<api, schedvars, scores_file, extvars>>

\* Line 122: read one byte of the client's action ('r' or anything else).
HRead(p) ==
    /\ pc[p] = "read"
    /\ sent < MaxActions
    /\ sent' = sent + 1
    /\ \E a \in {"r", "x"} :
          action' = [action EXCEPT ![p] = a]
    /\ pc' = [pc EXCEPT ![p] = "act_lock"]
    /\ UNCHANGED <<shm, game_mutex, score_mutex, mpc, player_id, connects, drops>>
    /\ UNCHANGED <<api, schedvars, scores_file, extvars>>

\* Lines 122-124: the read returns <= 0, the connection is lost.
HReadLost(p) ==
    /\ pc[p] = "read"
    /\ drops < MaxDrops
    /\ drops' = drops + 1
    /\ pc' = [pc EXCEPT ![p] = "disc_lock"]
    /\ UNCHANGED <<shm, game_mutex, score_mutex, action, mpc, player_id, connects, sent>>
    /\ UNCHANGED <<api, schedvars, scores_file, extvars>>

\* Lines 126-127 of the disconnect path.
disconnect(s, p) ==
    [s EXCEPT !.players[p].is_active = 0,
              !.active_player_count = @ - 1]

\* Lines 125-129: mark the player inactive under the mutex and leave.
HDisconnect(p) ==
    /\ pc[p] = "disc_lock"
    /\ can_lock(game_mutex)
    /\ shm' = disconnect(shm, p)
    /\ UNCHANGED game_mutex
    /\ pc' = [pc EXCEPT ![p] = "done"]
    /\ UNCHANGED <<score_mutex, action, mpc, player_id, connects, sent, drops>>
    /\ UNCHANGED <<api, schedvars, scores_file, extvars>>

\* What landing on a square does to the mover's money (lines 155-206).  The
\* dice and the board decide the square; the model draws the outcome:
\* the tax office, an unowned property (bought when affordable), or a
\* square that costs nothing.
Landings == {[k |-> "tax", sq |-> 10]}
            \cup {[k |-> "buy", sq |-> i] : i \in Squares}
            \cup {[k |-> "free", sq |-> 0]}

land(s, p, l) ==
    CASE l.k = "tax" -> [s EXCEPT !.players[p].money = @ - TAX]
      [] l.k = "buy" -> IF s.players[p].money >= price(l.sq)
                        THEN [s EXCEPT !.players[p].money = @ - price(l.sq)]
                        ELSE s
      [] OTHER -> s

\* Lines 209-214: the bankruptcy check after the move.
check_bankruptcy(s, p) ==
    IF s.players[p].money < 0
    THEN [s EXCEPT !.players[p].is_bankrupt = 1,
                   !.active_player_count = @ - 1]
    ELSE s

\* (mutant) the move made whatever the action byte is.
act_on_any_byte(s, p, a, l) ==
    IF s.players[p].is_bankrupt = 0
    THEN check_bankruptcy(land(s, p, l), p)
    ELSE s

\* Lines 140-224: a roll by a solvent player moves and settles; any other
\* action changes nothing.
act(s, p, a, l) ==
    IF a = "r" /\ s.players[p].is_bankrupt = 0
    THEN check_bankruptcy(land(s, p, l), p)
    ELSE s

\* Lines 132-224: take game_mutex and apply the action; the handler goes on
\* to write the update, still holding the mutex.
HAct(p) ==
    /\ pc[p] = "act_lock"
    /\ can_lock(game_mutex)
    /\ game_mutex' = {p}
    /\ \E l \in Landings : shm' = act(shm, p, action[p], l)
    /\ action' = [action EXCEPT ![p] = "x"]   \* the local is dead from here on
    /\ pc' = [pc EXCEPT ![p] = "write_update"]
    /\ UNCHANGED <<score_mutex, mpc, player_id, connects, sent, drops>>
    /\ UNCHANGED <<api, schedvars, scores_file, extvars>>

\* Line 226: the update packet is written while game_mutex is held.
HWriteUpdate(p) ==
    /\ pc[p] = "write_update"
    /\ pc' = [pc EXCEPT ![p] = "advance"]
    /\ UNCHANGED <<shm, game_mutex, score_mutex, action, mpc, player_id, connects, sent, drops>>
    /\ UNCHANGED <<api, schedvars, scores_file, extvars>>

\* Lines 226-230: the write fails; the handler unlocks and leaves.
HWriteFailed(p) ==
    /\ pc[p] = "write_update"
    /\ drops < MaxDrops
    /\ drops' = drops + 1
    /\ game_mutex' = {}
    /\ pc' = [pc EXCEPT ![p] = "done"]
    /\ UNCHANGED <<shm, score_mutex, action, mpc, player_id, connects, sent>>
    /\ UNCHANGED <<api, schedvars, scores_file, extvars>>

\* Lines 233-235 (and 104-106): advance_turn, broadcast, unlock.  When the
\* game ends advance_turn goes on to take score_mutex.
HAdvance(p) ==
    /\ pc[p] = "advance"
    /\ game_mutex = {p}
    /\ shm' = advance_turn_move(shm)
    /\ IF game_ends(shm')
       THEN /\ can_lock(score_mutex)
            /\ score_mutex' = {p}
            /\ pc' = [pc EXCEPT ![p] = "adv_scores"]
            /\ UNCHANGED game_mutex
       ELSE /\ pc' = [broadcast(pc) EXCEPT ![p] = "top"]
            /\ game_mutex' = {}
            /\ UNCHANGED score_mutex
    /\ UNCHANGED <<action, mpc, player_id, connects, sent, drops>>
    /\ UNCHANGED <<api, schedvars, scores_file, extvars>>

\* game_state.c:204-232: credit the winner under score_mutex, save the
\* scores; then back in the handler broadcast and unlock.
HScores(p) ==
    /\ pc[p] = "adv_scores"
    /\ score_mutex = {p}
    /\ shm' = advance_turn_scores(shm)
    /\ scores_file' = save_scores(shm')
    /\ score_mutex' = {}
    /\ game_mutex' = {}
    /\ pc' = [broadcast(pc) EXCEPT ![p] = "top"]
    /\ UNCHANGED <<action, mpc, player_id, connects, sent, drops>>
    /\ UNCHANGED <<api, schedvars, extvars>>

(***************************************************************************)
(* The accept loop of main()                                               *)
(***************************************************************************)
\* Line 322: accept() returns a new connection.
MainAccept ==
    /\ mpc = "accept"
    /\ connects < MaxConnects
    /\ connects' = connects + 1
    /\ mpc' = "register"
    /\ UNCHANGED <<shm, game_mutex, score_mutex, pc, action, player_id, sent, drops>>
    /\ UNCHANGED <<api, schedvars, scores_file, extvars>>

\* Lines 347-353: the next slot is given to the new player.
register(s) ==
    [s EXCEPT !.num_players = @ + 1,
              !.players[s.num_players] =
                  [money |-> START_MONEY, is_active |-> 1, is_bankrupt |-> 0],
              !.active_player_count = @ + 1]

\* (mutant) the start without the test for WAITING.
start_game_any(s) ==
    IF s.num_players >= MIN_CLIENTS
    THEN [s EXCEPT !.game_state = "PLAYING", !.current_turn = 0, !.round = 0]
    ELSE s

\* Lines 360-364: the game starts with the MIN_CLIENTS-th player.
start_game(s) ==
    IF s.num_players >= MIN_CLIENTS /\ s.game_state = "WAITING"
    THEN [s EXCEPT !.game_state = "PLAYING", !.current_turn = 0, !.round = 0]
    ELSE s

\* Lines 328-370, under game_mutex: reject when full or over; else register,
\* maybe start the game (with a broadcast), unlock.
MainRegister ==
    /\ mpc = "register"
    /\ can_lock(game_mutex)
    /\ UNCHANGED game_mutex
    /\ IF shm.num_players >= MAX_CLIENTS \/ shm.game_state = "GAME_OVER"
       THEN /\ mpc' = "accept"
            /\ UNCHANGED <<shm, pc, player_id>>
       ELSE /\ shm' = start_game(register(shm))
            /\ player_id' = shm.num_players
            /\ pc' = IF shm'.game_state # shm.game_state THEN broadcast(pc) ELSE pc
            /\ mpc' = "fork"
    /\ UNCHANGED <<score_mutex, action, connects, sent, drops>>
    /\ UNCHANGED <<api, schedvars, scores_file, extvars>>

\* Lines 373-377: the child process runs handle_client(player_id).
MainFork ==
    /\ mpc = "fork"
    /\ pc' = [pc EXCEPT ![player_id] = "top"]
    /\ mpc' = "accept"
    /\ UNCHANGED <<shm, game_mutex, score_mutex, action, player_id, connects, sent, drops>>
    /\ UNCHANGED <<api, schedvars, scores_file, extvars>>

\* The server is stopped with SIGINT (sig_handler, server.c:31-43: the scores
\* are saved and the process exits) and started again (server.c:262-270: a
\* fresh region, then load_scores).  The handlers of the old run are gone.
Restart ==
    /\ shm.total_games < MaxGames
    /\ game_mutex = {}
    /\ score_mutex = {}
    /\ scores_file' = save_scores(shm)
    /\ shm' = load_scores(init_shared_memory, scores_file')
    /\ pc' = [p \in Slots |-> "none"]
    /\ action' = [p \in Slots |-> "x"]
    /\ mpc' = "accept"
    /\ player_id' = 0
    /\ connects' = 0
    /\ sent' = 0
    /\ drops' = 0
    /\ UNCHANGED <<game_mutex, score_mutex>>
    /\ UNCHANGED <<api, schedvars, extvars>>

ServerInit ==
    /\ shm = init_shared_memory
    /\ game_mutex = {}
    /\ score_mutex = {}
    /\ pc = [p \in Slots |-> "none"]
    /\ action = [p \in Slots |-> "x"]
    /\ mpc = "accept"
    /\ player_id = 0
    /\ connects = 0
    /\ sent = 0
    /\ drops = 0
    /\ scores_file = NoScoresFile

Handler(p) ==
    \/ HTurn(p)
    \/ HWriteOver(p)
    \/ HWriteTurn(p)
    \/ HRead(p)
    \/ HReadLost(p)
    \/ HDisconnect(p)
    \/ HAct(p)
    \/ HWriteUpdate(p)
    \/ HWriteFailed(p)
    \/ HAdvance(p)
    \/ HScores(p)

ServerNext ==
    \/ MainAccept
    \/ MainRegister
    \/ MainFork
    \/ \E p \in Slots : Handler(p)

(***************************************************************************)
(* advance_turn as a function of game_state.h, called directly             *)
(***************************************************************************)
\* advance_turn, whole: the move and, when the game ends, the score update.
advance_turn(s) ==
    LET m == advance_turn_move(s)
    IN  IF game_ends(m) THEN advance_turn_scores(m) ELSE m

\* Some holder of the region calls advance_turn(state) once the game has
\* started, the way the handlers do: under game_mutex, followed by a broadcast.
ApiAdvance ==
    /\ api < MaxApiCalls
    /\ shm.game_state # "WAITING"
    /\ game_mutex = {}
    /\ score_mutex = {}
    /\ api' = api + 1
    /\ shm' = advance_turn(shm)
    /\ scores_file' = IF game_ends(advance_turn_move(shm))
                      THEN save_scores(shm') ELSE scores_file
    /\ pc' = broadcast(pc)
    /\ UNCHANGED <<game_mutex, score_mutex, action, mpc, player_id, connects, sent, drops>>
    /\ UNCHANGED <<schedvars, extvars>>

(***************************************************************************)
(* SchedulerState                                                          *)
(***************************************************************************)
Callers == {"main", "child"}

\* scheduler_init(n): everything zero, nobody connected, signals at 0.
scheduler_init(n) ==
    [ num_players |-> n,
      active_player_count |-> 0,
      current_player_idx |-> 0,
      round_number |-> 0,
      total_moves |-> 0,
      game_in_progress |-> FALSE,
      scheduler_running |-> FALSE,
      is_connected |-> [i \in Slots |-> FALSE],
      is_active |-> [i \in Slots |-> FALSE],
      turn_signal |-> [i \in Slots |-> 0] ]

\* The scan of find_next_active_player: at most num_players slots, starting
\* after the current one; -1 when none is connected and active.
RECURSIVE scan_active(_, _, _)
scan_active(s, idx, attempts) ==
    IF attempts >= s.num_players THEN -1
    ELSE IF s.is_connected[idx] /\ s.is_active[idx] THEN idx
    ELSE scan_active(s, (idx + 1) % s.num_players, attempts + 1)

\* (mutant) "nobody found" reported as the current player.
find_next_or_stay(s) ==
    LET r == IF s.num_players = 0 THEN -1
             ELSE scan_active(s, (s.current_player_idx + 1) % s.num_players, 0)
    IN  IF r < 0 THEN s.current_player_idx ELSE r

\* (mutant) the scan begun at the current player instead of the one after.
find_next_from_current(s) ==
    IF s.num_players = 0 THEN -1
    ELSE scan_active(s, s.current_player_idx, 0)

find_next_active_player(s) ==
    IF s.num_players = 0 THEN -1
    ELSE scan_active(s, (s.current_player_idx + 1) % s.num_players, 0)

\* sync_sem_post, and the drain loop of sync_sem_trywait calls.
sem_post(v) == v + 1

RECURSIVE sem_drain(_)
sem_drain(v) == IF v > 0 THEN sem_drain(v - 1) ELSE v

\* (mutant) the other players' signals are left as they are.
update_turn_signals_no_drain(s) ==
    [s EXCEPT !.turn_signal = [i \in Slots |->
        IF i < s.num_players /\ i = s.current_player_idx /\ @[i] = 0
        THEN sem_post(@[i]) ELSE @[i]]]

\* (mutant) the current player's signal is posted whatever its value.
update_turn_signals_always_post(s) ==
    [s EXCEPT !.turn_signal = [i \in Slots |->
        IF i >= s.num_players THEN @[i]
        ELSE IF i = s.current_player_idx THEN sem_post(@[i])
             ELSE sem_drain(@[i])]]

\* update_turn_signals: post the current player's signal if it is 0, drain
\* every other player's.
update_turn_signals(s) ==
    [s EXCEPT !.turn_signal = [i \in Slots |->
        IF i >= s.num_players THEN @[i]
        ELSE IF i = s.current_player_idx
             THEN (IF @[i] = 0 THEN sem_post(@[i]) ELSE @[i])
             ELSE sem_drain(@[i])]]

\* (mutant) connect without the test for an already connected player.
scheduler_player_connect_unchecked(s, id) ==
    << [s EXCEPT !.is_connected[id] = TRUE,
                 !.is_active[id] = TRUE,
                 !.active_player_count = @ + 1], 0 >>

\* The locked part of scheduler_player_connect: <<new state, return value>>.
scheduler_player_connect(s, id) ==
    IF s.is_connected[id] THEN <<s, 0>>
    ELSE << [s EXCEPT !.is_connected[id] = TRUE,
                      !.is_active[id] = TRUE,
                      !.active_player_count = @ + 1], 0 >>

\* (mutant) disconnect without the test for an already disconnected player.
scheduler_player_disconnect_unchecked(s, id) ==
    LET s1 == [s EXCEPT !.is_connected[id] = FALSE,
                        !.is_active[id] = FALSE,
                        !.active_player_count = @ - 1]
        next_idx == find_next_active_player(s1)
    IN  IF s1.current_player_idx = id /\ next_idx >= 0
        THEN << update_turn_signals([s1 EXCEPT !.current_player_idx = next_idx]), 0 >>
        ELSE << s1, 0 >>

\* (mutant) a disconnect that leaves the turn where it is.
scheduler_player_disconnect_no_advance(s, id) ==
    IF ~s.is_connected[id] THEN <<s, 0>>
    ELSE << [s EXCEPT !.is_connected[id] = FALSE,
                      !.is_active[id] = FALSE,
                      !.active_player_count = @ - 1], 0 >>

\* The locked part of scheduler_player_disconnect.
scheduler_player_disconnect(s, id) ==
    IF ~s.is_connected[id] THEN <<s, 0>>
    ELSE LET s1 == [s EXCEPT !.is_connected[id] = FALSE,
                             !.is_active[id] = FALSE,
                             !.active_player_count = @ - 1]
             next_idx == find_next_active_player(s1)
         IN  IF s1.current_player_idx = id /\ next_idx >= 0
             THEN << update_turn_signals([s1 EXCEPT !.current_player_idx = next_idx]), 0 >>
             ELSE << s1, 0 >>

\* The locked part of scheduler_advance_turn.
scheduler_advance_turn(s) ==
    LET next_idx == find_next_active_player(s)
    IN  IF next_idx < 0 THEN <<s, -1>>
        ELSE << update_turn_signals([s EXCEPT !.current_player_idx = next_idx,
                                              !.total_moves = @ + 1]),
                next_idx >>

\* (mutant) a scheduler operation that sets game_in_progress.
scheduler_begin_game(s) == << [s EXCEPT !.game_in_progress = TRUE], 0 >>

\* The locked part of scheduler_end_game.
scheduler_end_game(s) == << [s EXCEPT !.game_in_progress = FALSE], 0 >>

\* One pass of the scheduler thread's loop body after its wait (lines 472-494).
scheduler_tick(s) ==
    LET next_idx == find_next_active_player(s)
    IN  IF s.game_in_progress /\ s.active_player_count > 0 /\ next_idx >= 0
        THEN update_turn_signals(
                 [s EXCEPT !.current_player_idx = next_idx,
                           !.total_moves = @ + 1,
                           !.round_number = IF next_idx = 0 THEN @ + 1 ELSE @])
        ELSE s

\* Who calls what: the parent process connects players, advances the turn
\* and ends the game (server.c:381, main.c:65-79, test_integration.c:115,167);
\* a forked player process disconnects (test_integration.c:70).
Ops(c) == IF c = "main" THEN {"connect", "advance", "end_game"} ELSE {"disconnect"}

\* The argument checks made before the lock is taken (lines 206, 240).
valid_id(s, id) == ~(id < 0 \/ id >= s.num_players)

\* (mutant) scheduler_init without its test of the player count.
any_count(n) == TRUE

\* The argument check of scheduler_init (line 99).
valid_count(n) == ~(n < MIN_PLAYERS \/ n > MAX_PLAYERS)

\* What sch holds while scheduler_state is NULL: no SchedulerState exists,
\* and no function reads a field of it.
NoSchedulerState == scheduler_init(0)

\* scheduler_is_my_turn after its NULL test (290-299): no lock is taken.
scheduler_is_my_turn(s, id) ==
    IF ~valid_id(s, id) THEN 0 - 1
    ELSE IF s.current_player_idx = id /\ s.is_connected[id] THEN 1
    ELSE 0

\* A caller enters a scheduler function.  Every function returns -1 while
\* scheduler_state is NULL (201, 235, 324, 361); connect and disconnect
\* return -1 for a bad player id before taking the lock.
SCall(c) ==
    /\ cpc[c] = "idle"
    /\ \E op \in Ops(c), id \in (0 - 1) .. sch.num_players :
         /\ op \in {"advance", "end_game"} => id = 0
         /\ op = "advance" => sch.total_moves < MaxMoves
         /\ IF \/ scheduler_state = "NULL"
               \/ op \in {"connect", "disconnect"} /\ ~valid_id(sch, id)
            THEN /\ cop' = [cop EXCEPT ![c] = [op |-> op, id |-> id]]
                 /\ sret' = [sret EXCEPT ![c] = 0 - 1]
                 /\ UNCHANGED cpc
            ELSE /\ cop' = [cop EXCEPT ![c] = [op |-> op, id |-> id]]
                 /\ sret' = [sret EXCEPT ![c] = 0]
                 /\ cpc' = [cpc EXCEPT ![c] = "lock"]
    /\ UNCHANGED <<sch, scheduler_lock, tpc, scheduler_state>>
    /\ UNCHANGED <<svars, api, scores_file, extvars>>

\* sync_mutex_lock(scheduler_lock).
SLock(c) ==
    /\ cpc[c] = "lock"
    /\ can_lock(scheduler_lock)
    /\ scheduler_lock' = {c}
    /\ cpc' = [cpc EXCEPT ![c] = "body"]
    /\ UNCHANGED <<sch, cop, sret, tpc, scheduler_state>>
    /\ UNCHANGED <<svars, api, scores_file, extvars>>

\* The function's body under the lock, the unlock and the return.
SBody(c) ==
    /\ cpc[c] = "body"
    /\ scheduler_lock = {c}
    /\ LET r == CASE cop[c].op = "connect" -> scheduler_player_connect(sch, cop[c].id)
                  [] cop[c].op = "disconnect" -> scheduler_player_disconnect(sch, cop[c].id)
                  [] cop[c].op = "advance" -> scheduler_advance_turn(sch)
                  [] OTHER -> scheduler_end_game(sch)
       IN  /\ sch' = r[1]
           /\ sret' = [sret EXCEPT ![c] = r[2]]
    /\ scheduler_lock' = {}
    /\ cpc' = [cpc EXCEPT ![c] = "idle"]
    /\ cop' = [cop EXCEPT ![c].id = 0]
    /\ UNCHANGED <<tpc, scheduler_state>>
    /\ UNCHANGED <<svars, api, scores_file, extvars>>

\* scheduler_thread_main, one locked section per step: mark the scheduler
\* running (442-449); look at game_in_progress (453-466); advance (468-496).
\* The loop is left only by the break after a failed sync_mutex_lock (454,
\* 469), which the initialised mutex never gives; tpc = "exited" stands for
\* the thread having returned (499-507).
SThread ==
    /\ scheduler_state = "mapped"
    /\ can_lock(scheduler_lock)
    /\ tpc \in {"start", "loop", "tick"}
    /\ CASE tpc = "start" ->
              /\ sch' = [sch EXCEPT !.scheduler_running = TRUE]
              /\ tpc' = "loop"
         [] tpc = "loop" ->
              /\ tpc' = IF sch.game_in_progress THEN "tick" ELSE "loop"
              /\ UNCHANGED sch
         [] OTHER ->
              /\ sch' = scheduler_tick(sch)
              /\ tpc' = "loop"
    /\ UNCHANGED <<scheduler_lock, cpc, cop, sret, scheduler_state>>
    /\ UNCHANGED <<svars, api, scores_file, extvars>>

\* scheduler_stop(tid) (379-394), called by the parent after scheduler_end_game
\* (main.c:77-78, test_integration.c:117-118, 148-149, 167-198) with the id
\* scheduler_start gave: pthread_join waits until scheduler_thread_main has
\* returned, then 0 is returned.
SStop ==
    /\ IF cpc["main"] = "idle"
       THEN /\ cop["main"].op = "end_game"
            /\ cop' = [cop EXCEPT !["main"] = [op |-> "stop", id |-> 0]]
            /\ cpc' = [cpc EXCEPT !["main"] = "join"]
            /\ UNCHANGED sret
       ELSE /\ cpc["main"] = "join"
            /\ tpc = "exited"
            /\ cpc' = [cpc EXCEPT !["main"] = "idle"]
            /\ sret' = [sret EXCEPT !["main"] = 0]
            /\ UNCHANGED cop
    /\ UNCHANGED <<sch, scheduler_lock, tpc, scheduler_state>>
    /\ UNCHANGED <<svars, api, scores_file, extvars>>

\* scheduler_init(n), called once by the parent before anything else
\* (server.c:274, main.c:65, test_integration.c:94): -1 for a player count
\* out of range, before shm_open; otherwise the state is created, mapped and
\* initialised and 0 is returned.
SInit ==
    /\ scheduler_state = "NULL"
    /\ cpc["main"] = "idle"
    /\ \E n \in (MIN_PLAYERS - 1) .. (MAX_PLAYERS + 1) :
         /\ cop' = [cop EXCEPT !["main"] = [op |-> "init", id |-> n]]
         /\ IF valid_count(n)
            THEN /\ sch' = scheduler_init(n)
                 /\ scheduler_state' = "mapped"
                 /\ sret' = [sret EXCEPT !["main"] = 0]
            ELSE /\ sret' = [sret EXCEPT !["main"] = 0 - 1]
                 /\ UNCHANGED <<sch, scheduler_state>>
    /\ UNCHANGED <<scheduler_lock, cpc, tpc>>
    /\ UNCHANGED <<svars, api, scores_file, extvars>>

\* The player ids a query is made with: one below the range, the current
\* player's, one above the range.
QueryIds(s) == {0 - 1, s.current_player_idx, s.num_players}

\* scheduler_is_my_turn(id) (285-300), asked by a player process: a read
\* without the lock; -1 while scheduler_state is NULL or for a bad player id.
SQuery(c) ==
    /\ c # "main"
    /\ cpc[c] = "idle"
    /\ \E id \in QueryIds(sch) :
         /\ cop' = [cop EXCEPT ![c] = [op |-> "is_my_turn", id |-> id]]
         /\ sret' = [sret EXCEPT ![c] =
                IF scheduler_state = "NULL" THEN 0 - 1
                ELSE scheduler_is_my_turn(sch, id)]
    /\ UNCHANGED <<sch, scheduler_lock, cpc, tpc, scheduler_state>>
    /\ UNCHANGED <<svars, api, scores_file, extvars>>

SchedInit(n) ==
    /\ sch = scheduler_init(n)
    /\ scheduler_lock = {}
    /\ cpc = [c \in Callers |-> "idle"]
    /\ cop = [c \in Callers |-> [op |-> "none", id |-> 0]]
    /\ sret = [c \in Callers |-> 0]
    /\ tpc = "start"
    /\ scheduler_state = "mapped"

SchedNext ==
    \/ \E c \in Callers : SCall(c)
    \/ \E c \in Callers : SLock(c)
    \/ \E c \in Callers : SBody(c)
    \/ SThread
    \/ SStop

(***************************************************************************)
(* The logger (logger.c): callers of logger_init, logger_log and           *)
(* logger_shutdown in the owning process, a forked child that logs, and    *)
(* the consumer thread logger_thread_main.                                 *)
(***************************************************************************)
LOG_MAX_MSGS == 10

\* MaxLogCalls: how many calls of logger_log are made (one more than the
\* queue holds, so that a full queue meets a further message).
MaxLogCalls == 11

LProcs == {"owner", "child"}

\* Everything but the logger.
LoggerRest == <<basevars, memvars, syncvars>>

\* The line logger_log formats for its id-th call (timestamp, pid, text), and
\* the reserved text logger_shutdown sends.
Line(id) == [text |-> "line", id |-> id]
EXIT_MSG == [text |-> "__LOGGER_EXIT__", id |-> 0]

\* (mutant) mq_send on a blocking descriptor: waits while the queue is full.
mq_send_waits_for_room(q) == Len(q) < LOG_MAX_MSGS

\* mq_write is opened with O_NONBLOCK (logger.c:128): mq_send returns at once
\* whatever the queue holds.
mq_send_ready(q) == TRUE

\* (mutant) a send that overwrites the newest message when the queue is full.
mq_send_overwrite(q, m) ==
    IF Len(q) < LOG_MAX_MSGS THEN <<Append(q, m), 0>>
    ELSE <<Append(SubSeq(q, 1, Len(q) - 1), m), 0>>

\* mq_send: <<queue, return value>>; a full queue refuses the message (EAGAIN).
mq_send(q, m) ==
    IF Len(q) < LOG_MAX_MSGS THEN <<Append(q, m), 0>> ELSE <<q, 0 - 1>>

\* (mutant) a flag that is never seen set.
never_running(p) == FALSE

\* The test of is_running that opens logger_init, logger_shutdown and
\* logger_log (93, 159, 188), in process p.
already_running(p) == is_running[p] # 0

\* (mutant) a receive that takes the newest message.
mq_receive_newest(q) == <<q[Len(q)], SubSeq(q, 1, Len(q) - 1)>>

\* mq_receive on a non-empty queue: <<message, queue left>>; every message
\* is sent with priority 0, so the oldest one is taken.
mq_receive(q) == <<Head(q), Tail(q)>>

\* logger_log in process p (186-208): nothing unless p's is_running is set;
\* else one non-blocking mq_send whose result is ignored.
LLog(p) ==
    /\ lpc[p] = "idle"
    /\ p = "child" => forked
    /\ log_calls < MaxLogCalls
    /\ log_calls' = log_calls + 1
    /\ lop' = "log" /\ lcaller' = p
    /\ IF ~already_running(p)
       THEN UNCHANGED <<mq, accepted>>
       ELSE /\ mq_send_ready(mq)
            /\ mq' = mq_send(mq, Line(log_calls'))[1]
            /\ accepted' = IF mq_send(mq, Line(log_calls'))[2] = 0
                           THEN Append(accepted, Line(log_calls'))
                           ELSE accepted
    /\ UNCHANGED <<log_file, is_running, forked, lpc, lret, log_thread, buf, nthreads>>
    /\ UNCHANGED LoggerRest

\* logger_init in the owning process (92-156).  Running already: return 0.
\* Else open the file, the semaphore and the queue (any of which may fail:
\* everything is released and -1 returned), start the consumer on an empty
\* queue and log the start message.  The process starts its logger once: it
\* exits after it has shut the logger down (server.c:36-42).
LInit ==
    /\ lpc["owner"] = "idle"
    /\ log_thread # "joined"
    /\ lop' = "init" /\ lcaller' = "owner"
    /\ IF already_running("owner")
       THEN /\ lret' = [lret EXCEPT !["owner"] = 0]
            /\ UNCHANGED <<mq, accepted, log_calls, is_running, log_thread, nthreads>>
       ELSE \E opened \in BOOLEAN :
              IF opened /\ log_calls < MaxLogCalls
              THEN /\ lret' = [lret EXCEPT !["owner"] = 0]
                   /\ is_running' = [is_running EXCEPT !["owner"] = 1]
                   /\ log_thread' = "recv"
                   /\ nthreads' = nthreads + 1
                   /\ log_calls' = log_calls + 1
                   /\ mq' = mq_send(<<>>, Line(log_calls'))[1]
                   /\ accepted' = Append(accepted, Line(log_calls'))
              ELSE /\ lret' = [lret EXCEPT !["owner"] = 0 - 1]
                   /\ UNCHANGED <<mq, accepted, log_calls, is_running, log_thread, nthreads>>
    /\ UNCHANGED <<log_file, forked, lpc, buf>>
    /\ UNCHANGED LoggerRest

\* fork(): the child gets a copy of the owner's is_running (and descriptors).
LFork ==
    /\ ~forked
    /\ lpc["owner"] = "idle"
    /\ forked' = TRUE
    /\ is_running' = [is_running EXCEPT !["child"] = is_running["owner"]]
    /\ UNCHANGED <<mq, log_file, accepted, log_calls, lpc, lop, lret, log_thread, buf,
                   lcaller, nthreads>>
    /\ UNCHANGED LoggerRest

\* logger_shutdown up to the join (158-166): nothing when not running; else
\* the sentinel is sent on the non-blocking descriptor, its result ignored.
LShutdown ==
    /\ lpc["owner"] = "idle"
    /\ lop' = "shutdown" /\ lcaller' = "owner"
    /\ IF ~already_running("owner")
       THEN UNCHANGED <<mq, accepted, lpc>>
       ELSE /\ mq' = mq_send(mq, EXIT_MSG)[1]
            /\ accepted' = IF mq_send(mq, EXIT_MSG)[2] = 0
                           THEN Append(accepted, EXIT_MSG)
                           ELSE accepted
            /\ lpc' = [lpc EXCEPT !["owner"] = "join"]
    /\ UNCHANGED <<log_file, log_calls, is_running, forked, lret, log_thread, buf, nthreads>>
    /\ UNCHANGED LoggerRest

\* pthread_join returns once the consumer has ended; then 168-183: the queue,
\* the semaphore and the file are closed and is_running is cleared.
LJoin ==
    /\ lpc["owner"] = "join"
    /\ log_thread = "exited"
    /\ log_thread' = "joined"
    /\ is_running' = [is_running EXCEPT !["owner"] = 0]
    /\ lpc' = [lpc EXCEPT !["owner"] = "idle"]
    /\ nthreads' = nthreads - 1
    /\ UNCHANGED <<mq, log_file, accepted, log_calls, forked, lop, lret, buf, lcaller>>
    /\ UNCHANGED LoggerRest

\* logger_thread_main, mq_receive (71-76): blocks while the queue is empty,
\* takes the oldest message, ends on the sentinel.
LRecv ==
    /\ log_thread = "recv"
    /\ mq # <<>>
    /\ buf' = mq_receive(mq)[1]
    /\ mq' = mq_receive(mq)[2]
    /\ log_thread' = IF buf'.text = EXIT_MSG.text THEN "exited" ELSE "write"
    /\ UNCHANGED <<log_file, accepted, log_calls, is_running, forked, lpc, lop, lret,
                   lcaller, nthreads>>
    /\ UNCHANGED LoggerRest

\* write_log_line (51-64): the line is appended to the file.
LWrite ==
    /\ log_thread = "write"
    /\ log_file' = Append(log_file, buf)
    /\ log_thread' = "recv"
    /\ UNCHANGED <<mq, accepted, log_calls, is_running, forked, lpc, lop, lret, buf,
                   lcaller, nthreads>>
    /\ UNCHANGED LoggerRest

LoggerInit ==
    /\ mq = <<>>
    /\ log_file = <<>>
    /\ accepted = <<>>
    /\ log_calls = 0
    /\ is_running = [p \in LProcs |-> 0]
    /\ forked = FALSE
    /\ lpc = [p \in LProcs |-> "idle"]
    /\ lop = "none"
    /\ lcaller = "owner"
    /\ nthreads = 0
    /\ lret = [p \in LProcs |-> 0]
    /\ log_thread = "none"
    /\ buf = Line(0)

LoggerNext ==
    \/ LInit
    \/ LFork
    \/ \E p \in LProcs : LLog(p)
    \/ LShutdown
    \/ LJoin
    \/ LRecv
    \/ LWrite

(***************************************************************************)
(* Shared regions (shared_memory.c): the parent creates and cleans the     *)
(* region, player processes attach, write their slot and detach.           *)
(***************************************************************************)
NUM_PROCESSES == 4

\* MaxRegions: how many regions can be alive at once (one under the name
\* and one that lost its name while still mapped).
MaxRegions == 2

\* MaxWrites: how often a player process writes its slot.
MaxWrites == 2

MProcs == {"parent", "player0", "player1"}
Players == MProcs \ {"parent"}
slot_of(p) == IF p = "player0" THEN 0 ELSE 1

Regions == 1 .. MaxRegions

\* Everything but the shared regions.
MemRest == <<basevars, lgvars, syncvars>>

\* A SharedData as init_shared_memory leaves it (51-55): counters 0, buffers
\* empty.
ZeroData ==
    [ counter |-> [i \in 0 .. (NUM_PROCESSES - 1) |-> 0],
      buffer |-> [i \in 0 .. (NUM_PROCESSES - 1) |-> ""] ]

\* A region is alive while the name stands for it or a process maps it.
Alive(nm, mp) == {r \in Regions : nm = r \/ \E p \in MProcs : mp[p] = r}

\* The memory of a region nobody can reach any more is given back.
reclaim(rg, nm, mp) ==
    [r \in Regions |-> IF r \in Alive(nm, mp) THEN rg[r] ELSE ZeroData]

\* shm_open(name, oflag): the region behind the name; without one, a new
\* region when O_CREAT is given (fresh: the region that would be made),
\* else failure (0).
shm_open(nm, o_creat, fresh) ==
    IF nm # 0 THEN nm ELSE IF o_creat THEN fresh ELSE 0

\* (mutant) an attach that opens with O_CREAT.
attach_or_create(nm, fresh) == shm_open(nm, TRUE, fresh)

\* attach_shared_memory (63-81): shm_open(name, O_RDWR) and mmap; the region
\* mapped, or 0 for NULL.
attach_shared_memory(nm, fresh) == shm_open(nm, FALSE, fresh)

\* init_shared_memory(name, size) by the parent (29-60): shm_open with
\* O_CREAT, ftruncate to the size, mmap into shared_mem_ptr, then the
\* counters and the buffers are cleared; returns 0.  A new region is one
\* that is not alive.
MInit ==
    \E fresh \in Regions :
        /\ fresh \notin Alive(shm_name, mapping) \/ shm_name # 0
        /\ LET r == shm_open(shm_name, TRUE, fresh)
           IN  /\ shm_name' = r
               /\ mapping' = [mapping EXCEPT !["parent"] = r]
               /\ region' = reclaim([region EXCEPT ![r] = ZeroData],
                                    shm_name', mapping')
               /\ mlast' = [op |-> "init", p |-> "parent", ret |-> 0]
        /\ UNCHANGED MemRest

\* attach_shared_memory(name, size) by a player process that holds no
\* mapping (test_integration.c:24).
MAttach(p) ==
    /\ p \in Players
    /\ mapping[p] = 0
    /\ \E fresh \in Regions :
        /\ fresh \notin Alive(shm_name, mapping) \/ shm_name # 0
        /\ LET r == attach_shared_memory(shm_name, fresh)
           IN  /\ mapping' = [mapping EXCEPT ![p] = r]
               /\ shm_name' = IF shm_name = 0 /\ r # 0 THEN r ELSE shm_name
               /\ mlast' = [op |-> "attach", p |-> p, ret |-> r]
    /\ UNCHANGED region
    /\ UNCHANGED MemRest

\* A player process writes its message and counts it (test_integration.c:48-51).
MWrite(p) ==
    /\ p \in Players
    /\ mapping[p] # 0
    /\ region[mapping[p]].counter[slot_of(p)] < MaxWrites
    /\ region' = [region EXCEPT ![mapping[p]].counter[slot_of(p)] = @ + 1,
                                ![mapping[p]].buffer[slot_of(p)] = "move"]
    /\ mlast' = [op |-> "write", p |-> p, ret |-> 0]
    /\ UNCHANGED <<shm_name, mapping>>
    /\ UNCHANGED MemRest

\* detach_shared_memory(memory, size) (84-96): munmap of the caller's mapping.
MDetach(p) ==
    /\ p \in Players
    /\ mapping[p] # 0
    /\ mapping' = [mapping EXCEPT ![p] = 0]
    /\ region' = reclaim(region, shm_name, mapping')
    /\ mlast' = [op |-> "detach", p |-> p, ret |-> 0]
    /\ UNCHANGED shm_name
    /\ UNCHANGED MemRest

\* clean_shared_memory(shared_mem_ptr, name, size) by the parent (99-111):
\* munmap of its own mapping, then shm_unlink(name).
MClean ==
    /\ mapping' = [mapping EXCEPT !["parent"] = 0]
    /\ shm_name' = 0
    /\ region' = reclaim(region, shm_name', mapping')
    /\ mlast' = [op |-> "clean", p |-> "parent", ret |-> 0]
    /\ UNCHANGED MemRest

MemInit ==
    /\ shm_name = 0
    /\ region = [r \in Regions |-> ZeroData]
    /\ mapping = [p \in MProcs |-> 0]
    /\ mlast = [op |-> "none", p |-> "parent", ret |-> 0]

MemNext ==
    \/ MInit
    \/ \E p \in Players : MAttach(p)
    \/ \E p \in Players : MWrite(p)
    \/ \E p \in Players : MDetach(p)
    \/ MClean

(***************************************************************************)
(* Synchronisation primitives (sync.c): two processes using one mutex and  *)
(* one semaphore that live in a shared region.                             *)
(***************************************************************************)
EBUSY == 16
EAGAIN == 11
EINTR == 4

\* MaxSem: the highest value the semaphore is posted to.
MaxSem == 2

\* MaxIntr: how many signals interrupt a waiting sem_wait.
MaxIntr == 2

YProcs == {"p1", "p2"}

\* Everything but the primitives.
SyncRest == <<basevars, lgvars, memvars>>

\* pthread_mutex_trylock by p: <<holders, result>>.
pthread_mutex_trylock(m, p) == IF m = {} THEN <<{p}, 0>> ELSE <<m, EBUSY>>

\* (mutant) a trylock that hands the result of pthread_mutex_trylock on.
sync_mutex_trylock_raw(m, p) == pthread_mutex_trylock(m, p)

\* sync_mutex_trylock (74-90): 0 when locked, 1 on EBUSY, else -1.
sync_mutex_trylock(m, p) ==
    LET r == pthread_mutex_trylock(m, p)
    IN  << r[1], IF r[2] = 0 THEN 0 ELSE IF r[2] = EBUSY THEN 1 ELSE 0 - 1 >>

\* sem_trywait: <<value, result, errno>>.
sem_trywait(v) == IF v > 0 THEN <<v - 1, 0, 0>> ELSE <<v, 0 - 1, EAGAIN>>

\* sync_sem_trywait (142-158): 0 when decremented, 1 on EAGAIN, else -1.
sync_sem_trywait(v) ==
    LET r == sem_trywait(v)
    IN  << r[1], IF r[2] = 0 THEN 0 ELSE IF r[3] = EAGAIN THEN 1 ELSE 0 - 1 >>

\* sem_wait when it returns: <<value, result, errno>>.  It returns with the
\* value decremented, or, while the value is 0, interrupted by a signal.
sem_wait(v) == IF v > 0 THEN <<v - 1, 0, 0>> ELSE <<v, 0 - 1, EINTR>>

\* One turn of the loop of sync_sem_wait (130-139) around a returning
\* sem_wait: the new value, whether sync_sem_wait returns, and its result.
sync_sem_wait(v) ==
    LET r == sem_wait(v)
    IN  IF r[2] = 0 THEN [v |-> r[1], returns |-> TRUE, ret |-> 0]
        ELSE IF r[3] = EINTR THEN [v |-> r[1], returns |-> FALSE, ret |-> 0]
        ELSE [v |-> r[1], returns |-> TRUE, ret |-> 0 - 1]

\* sync_mutex_trylock by p.
YTryLock(p) ==
    /\ ypc[p] = "idle"
    /\ LET r == sync_mutex_trylock(mtx, p)
       IN  /\ mtx' = r[1]
           /\ ylast' = [op |-> "trylock", p |-> p, ret |-> r[2]]
    /\ UNCHANGED <<sem, ypc, intr>>
    /\ UNCHANGED SyncRest

\* sync_mutex_unlock by the holder (59-72).
YUnlock(p) ==
    /\ ypc[p] = "idle"
    /\ mtx = {p}
    /\ mtx' = {}
    /\ ylast' = [op |-> "unlock", p |-> p, ret |-> 0]
    /\ UNCHANGED <<sem, ypc, intr>>
    /\ UNCHANGED SyncRest

\* sync_sem_trywait by p.
YTryWait(p) ==
    /\ ypc[p] = "idle"
    /\ LET r == sync_sem_trywait(sem)
       IN  /\ sem' = r[1]
           /\ ylast' = [op |-> "trywait", p |-> p, ret |-> r[2]]
    /\ UNCHANGED <<mtx, ypc, intr>>
    /\ UNCHANGED SyncRest

\* sync_sem_post by p (160-172).
YPost(p) ==
    /\ ypc[p] = "idle"
    /\ sem < MaxSem
    /\ sem' = sem_post(sem)
    /\ ylast' = [op |-> "post", p |-> p, ret |-> 0]
    /\ UNCHANGED <<mtx, ypc, intr>>
    /\ UNCHANGED SyncRest

\* p enters sync_sem_wait (124-130).
YWaitCall(p) ==
    /\ ypc[p] = "idle"
    /\ ypc' = [ypc EXCEPT ![p] = "sem_wait"]
    /\ UNCHANGED <<mtx, sem, intr, ylast>>
    /\ UNCHANGED SyncRest

\* sem_wait returns to p inside sync_sem_wait: with the value decremented,
\* or interrupted while the value is 0, and then p calls it again.
YWaitTurn(p) ==
    /\ ypc[p] = "sem_wait"
    /\ sem = 0 => intr < MaxIntr
    /\ LET w == sync_sem_wait(sem)
       IN  /\ sem' = w.v
           /\ intr' = IF sem = 0 THEN intr + 1 ELSE intr
           /\ IF w.returns
              THEN /\ ypc' = [ypc EXCEPT ![p] = "idle"]
                   /\ ylast' = [op |-> "wait", p |-> p, ret |-> w.ret]
              ELSE UNCHANGED <<ypc, ylast>>
    /\ UNCHANGED mtx
    /\ UNCHANGED SyncRest

SyncInit ==
    /\ mtx = {}
    /\ sem = 0
    /\ ypc = [p \in YProcs |-> "idle"]
    /\ intr = 0
    /\ ylast = [op |-> "none", p |-> "p1", ret |-> 0]

SyncNext ==
    \/ \E p \in YProcs : YTryLock(p)
    \/ \E p \in YProcs : YUnlock(p)
    \/ \E p \in YProcs : YTryWait(p)
    \/ \E p \in YProcs : YPost(p)
    \/ \E p \in YProcs : YWaitCall(p)
    \/ \E p \in YProcs : YWaitTurn(p)

\* Everything beside the server and the scheduler in its initial state.
ExtInit == LoggerInit /\ MemInit /\ SyncInit

(***************************************************************************)
(* Specifications                                                          *)
(***************************************************************************)
\* server.c:274 initialises the scheduler for MAX_CLIENTS players.
Init == ServerInit /\ api = 0 /\ SchedInit(MAX_CLIENTS) /\ ExtInit

\* The server: the accept loop and the handlers.
SpecServer == Init /\ [][ServerNext]_vars

\* The server, plus direct calls of advance_turn.
GameApiNext == ServerNext \/ ApiAdvance

SpecGameApi == Init /\ [][GameApiNext]_vars

\* The server over several runs: stopped and started again.
RunsNext == ServerNext \/ Restart

SpecRuns == Init /\ [][RunsNext]_vars

\* The steps of handle_client(p) that wait for nothing outside the server:
\* everything but the read of the client's action and a lost connection.
HInternal(p) ==
    \/ HTurn(p)
    \/ HWriteOver(p)
    \/ HWriteTurn(p)
    \/ HDisconnect(p)
    \/ HAct(p)
    \/ HWriteUpdate(p)
    \/ HAdvance(p)
    \/ HScores(p)

\* LiveConnects: how many connections the environment opens in the runs
\* whose progress is checked.
LiveConnects == 3

MainAcceptLive == MainAccept /\ connects < LiveConnects

LiveNext ==
    \/ MainAcceptLive
    \/ MainRegister
    \/ MainFork
    \/ \E p \in Slots : Handler(p)

\* The server with its processes scheduled fairly: a handler that can go on
\* without its client does go on (at any moment at most one of these steps is
\* possible for a handler), and the accept loop finishes a registration.
SpecServerFair ==
    /\ Init
    /\ [][LiveNext]_vars
    /\ \A p \in Slots : WF_vars(HInternal(p))
    /\ WF_vars(MainRegister)
    /\ WF_vars(MainFork)

\* Line 122 with clients that never go away and always answer: the first
\* MaxActions answers are any byte, the later ones a byte other than 'r'
\* (which changes no money, so the runs stay finite in state).
HReadLive(p) ==
    /\ pc[p] = "read"
    /\ sent' = IF sent < MaxActions THEN sent + 1 ELSE sent
    /\ \E a \in (IF sent < MaxActions THEN {"r", "x"} ELSE {"x"}) :
          action' = [action EXCEPT ![p] = a]
    /\ pc' = [pc EXCEPT ![p] = "act_lock"]
    /\ UNCHANGED <<shm, game_mutex, score_mutex, mpc, player_id, connects, drops>>
    /\ UNCHANGED <<api, schedvars, scores_file, extvars>>

\* The handler steps when no read and no write fails.
HandlerLive(p) ==
    \/ HTurn(p)
    \/ HWriteOver(p)
    \/ HWriteTurn(p)
    \/ HReadLive(p)
    \/ HAct(p)
    \/ HWriteUpdate(p)
    \/ HAdvance(p)
    \/ HScores(p)

LapNext ==
    \/ MainAcceptLive
    \/ MainRegister
    \/ MainFork
    \/ \E p \in Slots : HandlerLive(p)

\* The server with fair processes and with clients that always answer and
\* never disconnect.
SpecLapFair ==
    /\ Init
    /\ [][LapNext]_vars
    /\ \A p \in Slots : WF_vars(HandlerLive(p))
    /\ WF_vars(MainRegister)
    /\ WF_vars(MainFork)

\* The scheduler module, initialised for any allowed number of players.
InitSched ==
    /\ ServerInit
    /\ api = 0
    /\ \E n \in MIN_PLAYERS .. MAX_PLAYERS : SchedInit(n)
    /\ ExtInit

SpecSched == InitSched /\ [][SchedNext]_vars

\* The scheduler module from before scheduler_init, with the unlocked query
\* scheduler_is_my_turn beside the locked functions.
InitSchedNull ==
    /\ ServerInit
    /\ api = 0
    /\ sch = NoSchedulerState
    /\ scheduler_lock = {}
    /\ cpc = [c \in Callers |-> "idle"]
    /\ cop = [c \in Callers |-> [op |-> "none", id |-> 0]]
    /\ sret = [c \in Callers |-> 0]
    /\ tpc = "start"
    /\ scheduler_state = "NULL"
    /\ ExtInit

SchedApiNext ==
    \/ SInit
    \/ \E c \in Callers : SQuery(c)
    \/ \E c \in Callers : SCall(c)
    \/ \E c \in Callers : SLock(c)
    \/ \E c \in Callers : SBody(c)
    \/ SThread
    \/ SStop

SpecSchedApi == InitSchedNull /\ [][SchedApiNext]_vars

\* The server and the scheduler together.  GameState and SchedulerState are
\* two regions with their own locks and no process's step touches both, so
\* the steps the two can take together are the steps each takes alone: the
\* server runs beside a scheduler at rest, the scheduler beside a server at
\* rest.
ServerStep == SchedInit(MAX_CLIENTS) /\ ServerNext

SchedStep == ServerInit /\ SchedNext

BothNext ==
    \/ ServerStep
    \/ SchedStep

SpecBoth == InitSched /\ [][BothNext]_vars

\* The scheduler with its threads scheduled fairly: the scheduler thread and
\* a caller inside a scheduler function keep running while they can.
SpecSchedFair ==
    /\ SpecSched
    /\ WF_vars(SThread)
    /\ WF_vars(SStop)
    /\ \A c \in Callers : WF_vars(SLock(c)) /\ WF_vars(SBody(c))

\* The synchronisation primitives and two processes that use them.
SpecSync == Init /\ [][SyncNext]_vars

\* The shared region and the processes that use it.
SpecShm == Init /\ [][MemNext]_vars

\* The logger: its callers and its consumer thread.
SpecLogger == Init /\ [][LoggerNext]_vars

\* The logger with its threads scheduled fairly: the consumer keeps running
\* while it can take a step, and a join returns once the thread has ended.
SpecLoggerFair ==
    SpecLogger /\ WF_vars(LRecv) /\ WF_vars(LWrite) /\ WF_vars(LJoin)

(***************************************************************************)
(* Claims                                                                  *)
(***************************************************************************)
\* Where a handler is between seeing its turn and finishing advance_turn (or
\* leaving on a lost connection).
Acting == {"write_turn", "read", "act_lock", "disc_lock", "write_update",
           "advance", "adv_scores"}

Actors == {p \in Slots : pc[p] \in Acting}

\* Slots that are connected/active and not bankrupt.
Eligible(s) ==
    {i \in 0 .. (s.num_players - 1) :
        s.players[i].is_active = 1 /\ s.players[i].is_bankrupt = 0}

\* A step in which advance_turn is called: by a handler, or directly.
AdvanceCalled ==
    \/ api' # api
    \/ \E p \in Slots : pc[p] = "advance" /\ pc'[p] # "advance"

\* C1: under every interleaving of the handlers and the accept loop, at most
\* one handler is in its acting section: no state has two players that both
\* believe it is their turn.
C1_OneActor == Cardinality(Actors) <= 1

\* C1 witness: a second turn is under way (one action was already handled)
\* while another handler has been woken and is about to look at the turn.
C1_Witness ==
    /\ sent >= 1
    /\ \E p \in Slots : pc[p] = "read" /\ shm.current_turn = p
    /\ \E q \in Slots : pc[q] = "woken"

\* C2: whenever active_player_count > 0 and the game is PLAYING (and nobody
\* is inside a locked section), current_turn refers to a slot that is active
\* and not bankrupt -- also after a connection drops during its own turn.
C2_CurrentEligible ==
    (game_mutex = {} /\ shm.active_player_count > 0 /\ shm.game_state = "PLAYING")
        => shm.current_turn \in Eligible(shm)

\* C3: advance_turn never sets current_turn to a bankrupt or disconnected
\* slot while some slot is active and not bankrupt.
C3_SkipsIneligible ==
    [][(AdvanceCalled /\ Eligible(shm) # {})
          => shm'.current_turn \in Eligible(shm)]_vars

\* C4: a handler that is at a socket write or read holds neither game_mutex
\* nor score_mutex.
C4_NoLockAcrossIO ==
    \A p \in Slots :
        pc[p] \in {"write_over", "write_turn", "read", "write_update"}
            => p \notin (game_mutex \cup score_mutex)

\* C5: the game does not stall on a dead player: when a handler has left on
\* a lost connection while the game is PLAYING and another player is still
\* eligible, the turn has been moved off the dead player.
C5_NoStallOnDead ==
    \A p \in Slots :
        (/\ pc[p] = "done"
         /\ shm.game_state = "PLAYING"
         /\ Eligible(shm) \ {p} # {})
            => shm.current_turn # p

\* C9: outside locked sections and once the game has started, GAME_OVER
\* holds exactly when at most one player is solvent or the lap cap is
\* reached.
C9_GameOverIff ==
    (game_mutex = {} /\ shm.game_state # "WAITING")
        => (shm.game_state = "GAME_OVER"
               <=> (Cardinality(solvent(shm)) <= 1 \/ shm.round >= RoundCap))

\* C10: GAME_OVER is terminal: game_state never leaves it, and a call of
\* advance_turn made in GAME_OVER changes neither current_turn, round, the
\* scores nor total_games.
C10_Terminal ==
    [][shm.game_state = "GAME_OVER"
          => /\ shm'.game_state = "GAME_OVER"
             /\ AdvanceCalled
                  => /\ shm'.current_turn = shm.current_turn
                     /\ shm'.round = shm.round
                     /\ shm'.scores = shm.scores
                     /\ shm'.total_games = shm.total_games]_vars

\* (not a claim) inside the server no handler calls advance_turn once the
\* game is over, and game_state never leaves GAME_OVER.
ServerNeverAdvancesAfterOver ==
    [][shm.game_state = "GAME_OVER"
          => (shm'.game_state = "GAME_OVER" /\ ~AdvanceCalled)]_vars

(***************************************************************************)
(* Claims about the scheduler                                              *)
(***************************************************************************)
\* The return of a scheduler call: caller c leaves the function's body.
Returns(c, op) == cpc[c] = "body" /\ cop[c].op = op /\ cpc'[c] = "idle"

\* A step that advances the scheduler's turn: a scheduler_advance_turn that
\* returns a player, a disconnect of the current player that finds a next
\* one, or a tick of the scheduler thread that moves.
SuccessfulAdvance ==
    \/ \E c \in Callers : Returns(c, "advance") /\ sret'[c] >= 0
    \/ \E c \in Callers :
          /\ Returns(c, "disconnect")
          /\ sch.current_player_idx = cop[c].id
          /\ sch'.current_player_idx # sch.current_player_idx
    \/ tpc = "tick" /\ sch'.total_moves # sch.total_moves

ExactlyOneReady(s) ==
    \A i \in 0 .. (s.num_players - 1) :
        s.turn_signal[i] = IF i = s.current_player_idx THEN 1 ELSE 0

\* C6: after every successful turn advance exactly one turn_signal is ready:
\* the new current player's is 1 and every other player's is 0.
C6_OneSignalAfterAdvance == [][SuccessfulAdvance => ExactlyOneReady(sch')]_vars

\* C6 witness: with two players in the game a second advance has returned,
\* so the previous player's raised signal had to be drained.
C6_Witness ==
    /\ sch.total_moves >= 2
    /\ sch.active_player_count >= 2
    /\ cpc["main"] = "idle" /\ cop["main"].op = "advance" /\ sret["main"] >= 0
    /\ ExactlyOneReady(sch)

\* C7: only the current player's turn_signal can be non-zero and no
\* turn_signal exceeds 1.
C7_SignalsBounded ==
    \A i \in Slots :
        /\ sch.turn_signal[i] <= 1
        /\ sch.turn_signal[i] > 0 => i = sch.current_player_idx

\* C7 witness: only one player ever connected (the child never called
\* disconnect) and the turn was advanced twice, re-selecting that player.
C7_Witness ==
    /\ cop["child"].op = "none"
    /\ sch.active_player_count = 1
    /\ sch.total_moves >= 2
    /\ sch.turn_signal[sch.current_player_idx] = 1

NoneActive(s) ==
    \A i \in 0 .. (s.num_players - 1) : ~(s.is_connected[i] /\ s.is_active[i])

\* C8: with no slot connected and active, scheduler_advance_turn returns -1,
\* leaves the scheduler state as it was and releases the lock.
C8_FailedAdvanceNoChange ==
    [][\A c \in Callers :
          (Returns(c, "advance") /\ NoneActive(sch))
             => (sret'[c] = 0 - 1 /\ sch' = sch /\ scheduler_lock' = {})]_vars

\* C8 witness: the turn had been advanced, everybody disconnected, and a
\* further scheduler_advance_turn has returned -1.
C8_Witness ==
    /\ cpc["main"] = "idle" /\ cop["main"].op = "advance" /\ sret["main"] = 0 - 1
    /\ NoneActive(sch)
    /\ sch.total_moves >= 1
    /\ sch.turn_signal[sch.current_player_idx] = 1

(***************************************************************************)
(* Claims about the score bookkeeping                                      *)
(***************************************************************************)
RECURSIVE SumUpTo(_, _)
SumUpTo(f, i) == IF i < 0 THEN 0 ELSE f[i] + SumUpTo(f, i - 1)

SumWins(s) == SumUpTo([i \in Slots |-> s.scores[i].wins], MAX_PLAYERS - 1)

SumGamesPlayed(s) ==
    SumUpTo([i \in Slots |-> s.scores[i].games_played], MAX_PLAYERS - 1)

\* One game's bookkeeping between s and s2: one more game in total, one more
\* win for one player of the game, one more game played for each player of it.
Bookkeeping(s, s2) ==
    /\ s2.total_games = s.total_games + 1
    /\ \E w \in 0 .. (s.num_players - 1) :
          \A i \in Slots :
             s2.scores[i].wins = s.scores[i].wins + (IF i = w THEN 1 ELSE 0)
    /\ \A i \in Slots :
          s2.scores[i].games_played =
             s.scores[i].games_played + (IF i < s.num_players THEN 1 ELSE 0)

\* A step that changes a score field is the bookkeeping of the handler that
\* is completing the transition to GAME_OVER.
ScoresChangeOnlyAtGameOver ==
    (shm'.scores # shm.scores \/ shm'.total_games # shm.total_games)
       => /\ \E p \in Slots : pc[p] = "adv_scores"
          /\ shm'.game_state = "GAME_OVER"
          /\ Bookkeeping(shm, shm')

\* With no bookkeeping under way, the N games counted by total_games gave
\* N wins, and each gave every one of its MIN_CLIENTS..MAX_CLIENTS players
\* a game played.
ScoresMatchGames ==
    score_mutex = {} =>
       /\ SumWins(shm) = shm.total_games
       /\ SumGamesPlayed(shm) >= shm.total_games * MIN_CLIENTS
       /\ SumGamesPlayed(shm) <= shm.total_games * MAX_CLIENTS

\* C11: the scores are booked exactly once per game: total_games, one
\* player's wins and every player's games_played go up by one at the
\* transition to GAME_OVER and at no other step, so that after N completed
\* games total_games = N, the wins add up to N and games_played adds up to
\* N times the players of a game.
C11_ScoresOncePerGame == []ScoresMatchGames /\ [][ScoresChangeOnlyAtGameOver]_vars

\* C11 within one run of the server (no restart): a game over has been
\* booked.
C11_Witness ==
    /\ shm.game_state = "GAME_OVER"
    /\ score_mutex = {} /\ game_mutex = {}
    /\ shm.total_games = 1
    /\ scores_file = save_scores(shm)

\* Handler p holds game_mutex and its action has just made it bankrupt,
\* leaving exactly one solvent player.  (A player that was bankrupt before
\* its turn never gets to "write_update": line 103 passes the turn on.)
LockedBankruptcy(p) ==
    /\ p \in game_mutex
    /\ pc[p] \in {"write_update", "advance", "adv_scores"}
    /\ shm.players[p].is_bankrupt = 1
    /\ Cardinality(solvent(shm)) = 1

\* The winner's wins went up by one and nobody else's changed.
WinBookedOnce(s, s2, w) ==
    \A i \in Slots :
       s2.scores[i].wins = s.scores[i].wins + (IF i = w THEN 1 ELSE 0)

\* C12: when the current player goes bankrupt during its action and one
\* solvent player remains, the locked section does not end before the game
\* is GAME_OVER and the remaining solvent player's wins went up by one.
C12_BankruptcyEndsGame ==
    [][\A p \in Slots :
          (LockedBankruptcy(p) /\ game_mutex' = {})
             => /\ shm'.game_state = "GAME_OVER"
                /\ WinBookedOnce(shm, shm', last_solvent(shm))]_vars

\* C12 witness: the bankruptcy of the current player has ended the game
\* below the lap cap, and the sole solvent player has its win.
C12_Witness ==
    /\ shm.game_state = "GAME_OVER"
    /\ game_mutex = {}
    /\ shm.round < RoundCap
    /\ Cardinality(solvent(shm)) = 1
    /\ shm.players[shm.current_turn].is_bankrupt = 0
    /\ shm.scores[last_solvent(shm)].wins = 1
    /\ SumWins(shm) = 1

\* w has the greatest money of players 0..num_players-1 and is the lowest id
\* that has it.
RichestLowestId(s, w) ==
    /\ w \in 0 .. (s.num_players - 1)
    /\ \A i \in 0 .. (s.num_players - 1) :
          /\ s.players[i].money <= s.players[w].money
          /\ i < w => s.players[i].money < s.players[w].money

\* C13: when the game ends at the lap cap with more than one solvent player,
\* the win goes to the player with the greatest money among players
\* 0..num_players-1, and on a tie to the lowest id among them.
C13_RichestWinsAtCap ==
    [][(/\ shm'.scores # shm.scores
        /\ shm'.round >= RoundCap
        /\ Cardinality(solvent(shm')) > 1)
          => \E w \in Slots :
                RichestLowestId(shm', w) /\ WinBookedOnce(shm, shm', w)]_vars

\* C13 witness: the game ended at the lap cap; players 1 and 2 tie for the
\* greatest money, above player 0, and player 1 has the win.
C13_Witness ==
    /\ shm.game_state = "GAME_OVER"
    /\ score_mutex = {}
    /\ shm.round >= RoundCap
    /\ Cardinality(solvent(shm)) > 1
    /\ shm.players[1].money = shm.players[2].money
    /\ shm.players[0].money < shm.players[1].money
    /\ shm.scores[1].wins = 1
    /\ SumWins(shm) = 1

\* A lap of the player index: the new index is not above the old one, or is 0.
LapWrapped(old, new) == new <= old \/ new = 0

\* C14: round never decreases, and a turn advance increments it exactly when
\* the player index wrapped (the new index is <= the previous one, or is 0),
\* whichever players are bankrupt or disconnected.
C14_RoundPerLap ==
    [][/\ shm'.round >= shm.round
       /\ AdvanceCalled =>
             shm'.round = shm.round +
                (IF LapWrapped(shm.current_turn, shm'.current_turn) THEN 1 ELSE 0)]_vars

\* C14 witness: with everybody solvent the index has wrapped to player 0 and
\* the round was counted.
C14_Witness ==
    /\ shm.game_state = "PLAYING"
    /\ shm.round = 1
    /\ shm.current_turn = 0
    /\ solvent(shm) = 0 .. (shm.num_players - 1)

\* Three consecutive calls of advance_turn from s: the states after each.
ThreeAdvances(s) ==
    LET s1 == advance_turn(s)
        s2 == advance_turn(s1)
        s3 == advance_turn(s2)
    IN  <<s1, s2, s3>>

\* Scenario A on the GameState: from the started game of players 0, 1, 2
\* three advances give players 1, 2, 0 and round 0, 0, 1.
ScenarioA_GameState ==
    (/\ shm.game_state = "PLAYING"
     /\ shm.num_players = 3
     /\ Eligible(shm) = {0, 1, 2}
     /\ shm.current_turn = 0
     /\ shm.round = 0)
       => LET a == ThreeAdvances(shm)
          IN  /\ a[1].current_turn = 1 /\ a[1].round = 0
              /\ a[2].current_turn = 2 /\ a[2].round = 0
              /\ a[3].current_turn = 0 /\ a[3].round = 1

\* Three consecutive calls of scheduler_advance_turn from s: <<state, return>>
\* of each.
ThreeSchedulerAdvances(s) ==
    LET r1 == scheduler_advance_turn(s)
        r2 == scheduler_advance_turn(r1[1])
        r3 == scheduler_advance_turn(r2[1])
    IN  <<r1, r2, r3>>

\* Scenario A on the scheduler: players 0, 1, 2 connected, current player 0,
\* round 0.
ScenarioA_Scheduler ==
    (/\ {i \in 0 .. (sch.num_players - 1) : sch.is_connected[i] /\ sch.is_active[i]}
           = {0, 1, 2}
     /\ sch.current_player_idx = 0
     /\ sch.round_number = 0)
       => LET a == ThreeSchedulerAdvances(sch)
          IN  /\ a[1][2] = 1 /\ a[1][1].current_player_idx = 1 /\ a[1][1].round_number = 0
              /\ a[2][2] = 2 /\ a[2][1].current_player_idx = 2 /\ a[2][1].round_number = 0
              /\ a[3][2] = 0 /\ a[3][1].current_player_idx = 0 /\ a[3][1].round_number = 1

\* C15: with players 0, 1, 2 connected, the game started at player 0 and
\* round 0, and nobody bankrupt or disconnected, three consecutive turn
\* advances make the current player 1, then 2, then 0, and the round is 1
\* after the third and 0 before it -- for advance_turn and for
\* scheduler_advance_turn.
C15_ScenarioA == ScenarioA_GameState /\ ScenarioA_Scheduler

\* C15 witness: the scheduler with exactly players 0, 1, 2 connected, at
\* player 0 and round 0.
C15_Witness ==
    /\ {i \in 0 .. (sch.num_players - 1) : sch.is_connected[i] /\ sch.is_active[i]}
          = {0, 1, 2}
    /\ sch.current_player_idx = 0
    /\ sch.round_number = 0
    /\ scheduler_lock = {}

\* The slots of s that are connected and active.
Connected(s) ==
    {i \in 0 .. (s.num_players - 1) : s.is_connected[i] /\ s.is_active[i]}

\* The first slot of set c after slot p in cyclic order.
NextInCycle(s, p, c) ==
    CHOOSE j \in c :
        \A k \in c : (j - p + s.num_players - 1) % s.num_players
                        <= (k - p + s.num_players - 1) % s.num_players

\* C16: when the current player p disconnects while another slot is connected
\* and active, the disconnect call itself (one lock hold) moves the turn to
\* the next connected and active slot in cyclic order and lowers
\* active_player_count by one; and no turn advance ever selects a slot that
\* is disconnected.
C16_DisconnectOfCurrent ==
    [][/\ \A c \in Callers :
             (/\ Returns(c, "disconnect")
              /\ sch.is_connected[cop[c].id]
              /\ sch.current_player_idx = cop[c].id
              /\ Connected(sch) \ {cop[c].id} # {})
                => /\ sch'.current_player_idx =
                         NextInCycle(sch, cop[c].id, Connected(sch) \ {cop[c].id})
                   /\ sch'.active_player_count = sch.active_player_count - 1
                   /\ ~sch'.is_connected[cop[c].id]
                   /\ scheduler_lock' = {}
       /\ SuccessfulAdvance => sch'.current_player_idx \in Connected(sch')]_vars

\* C16 witness: player 0 was current, has disconnected, and the turn has
\* moved on without any call of scheduler_advance_turn.
C16_Witness ==
    /\ cpc["child"] = "idle" /\ cop["child"].op = "disconnect"
    /\ ~sch.is_connected[0]
    /\ sch.total_moves = 0
    /\ sch.current_player_idx # 0
    /\ sch.current_player_idx \in Connected(sch)

\* A repeated call changes nothing: connect of a connected player and
\* disconnect of a disconnected one return 0 and the state they were given.
RepeatIsNoOp(s) ==
    \A id \in 0 .. (s.num_players - 1) :
       /\ s.is_connected[id] => scheduler_player_connect(s, id) = <<s, 0>>
       /\ ~s.is_connected[id] => scheduler_player_disconnect(s, id) = <<s, 0>>

\* connect;connect equals connect and disconnect;disconnect equals disconnect.
TwiceIsOnce(s) ==
    \A id \in 0 .. (s.num_players - 1) :
       /\ scheduler_player_connect(scheduler_player_connect(s, id)[1], id)
             = scheduler_player_connect(s, id)
       /\ scheduler_player_disconnect(scheduler_player_disconnect(s, id)[1], id)
             = scheduler_player_disconnect(s, id)

C18_SchedulerActiveCount == sch.active_player_count = Cardinality(Connected(sch))

\* C18 witness: after connects, a disconnect of the current player and an
\* advance, two players are counted.
C18_Witness ==
    /\ sch.active_player_count = 2
    /\ sch.total_moves >= 1
    /\ cop["child"].op = "disconnect" /\ sret["child"] = 0 /\ cpc["child"] = "idle"
    /\ ~sch.is_connected[0]

(***************************************************************************)
(* Claims about the server's player count and game status                  *)
(***************************************************************************)
\* C19: with game_mutex free, active_player_count of the GameState is the
\* number of slots 0..num_players-1 with is_active = 1, whatever joins,
\* bankruptcies and disconnects happened.
C19_ServerActiveCount ==
    game_mutex = {} =>
       shm.active_player_count =
          Cardinality({i \in 0 .. (shm.num_players - 1) : shm.players[i].is_active = 1})

\* C19 witness: the count after joins and a disconnect, nobody bankrupt.
C19_Witness ==
    /\ game_mutex = {}
    /\ shm.num_players = 3
    /\ shm.active_player_count = 2
    /\ shm.players[0].is_active = 0
    /\ solvent(shm) = {0, 1, 2}

\* The status moves one step along WAITING -> PLAYING -> GAME_OVER.
StatusOrder ==
    shm'.game_state # shm.game_state =>
       \/ shm.game_state = "WAITING" /\ shm'.game_state = "PLAYING"
       \/ shm.game_state = "PLAYING" /\ shm'.game_state = "GAME_OVER"

\* The accept loop registers a player in this step.
Joins == mpc = "register" /\ shm'.num_players = shm.num_players + 1

\* The game starts exactly in the join that brings the player count to
\* MIN_CLIENTS, at player 0 and round 0.
StartsAtThird ==
    /\ (shm.game_state = "WAITING" /\ shm'.game_state = "PLAYING")
          => /\ Joins /\ shm'.num_players = MIN_CLIENTS
             /\ shm'.current_turn = 0 /\ shm'.round = 0
    /\ (Joins /\ shm'.num_players = MIN_CLIENTS) => shm'.game_state = "PLAYING"

\* A join while the game is being played changes neither the status nor the
\* turn nor the round.
LateJoinKeepsTurn ==
    (Joins /\ shm.game_state = "PLAYING")
       => /\ shm'.game_state = "PLAYING"
          /\ shm'.current_turn = shm.current_turn
          /\ shm'.round = shm.round

PlayingHasPlayers ==
    shm.game_state = "PLAYING" =>
       (shm.num_players >= MIN_CLIENTS /\ shm.num_players <= MAX_CLIENTS)

\* C20: the game status only moves along WAITING -> PLAYING -> GAME_OVER; the
\* game starts exactly when the accept loop registers the third player, with
\* current_turn = 0 and round = 0; it starts at most once (a later join during
\* PLAYING resets neither current_turn nor round); and while PLAYING
\* num_players is between 3 and 5.
C20_StatusMachine ==
    /\ []PlayingHasPlayers
    /\ [][StatusOrder /\ StartsAtThird /\ LateJoinKeepsTurn]_vars

\* C20 witness: a fourth player has just joined a game in progress in which
\* the turn and the round had moved; both are kept.
C20_Witness ==
    /\ shm.game_state = "PLAYING"
    /\ shm.num_players = 4
    /\ mpc = "fork"
    /\ shm.current_turn = 1
    /\ shm.round = 1

(***************************************************************************)
(* The logger's claims                                                     *)
(***************************************************************************)
\* A step that is a call of logger_log (logger_init's own start message
\* apart: that step sets is_running).
LogCalled == log_calls' = log_calls + 1 /\ lop' = "log"

\* Process p is at a point where it may call logger_log.
CanCallLog(p) ==
    lpc[p] = "idle" /\ (p = "child" => forked) /\ log_calls < MaxLogCalls

LogNeverWaits == \A p \in LProcs : CanCallLog(p) => ENABLED LLog(p)

\* A call of logger_log that finds the queue full leaves the queue and the
\* accepted messages as they were and hands nothing back to the caller.
FullQueueDrops ==
    (LogCalled /\ Len(mq) = LOG_MAX_MSGS)
       => (mq' = mq /\ accepted' = accepted /\ lret' = lret /\ lpc' = lpc)

\* C22: logger_log never blocks: whatever the queue holds and whatever the
\* consumer is doing, a caller's logger_log is one step it can always take;
\* when the queue already holds its 10 pending messages the new message is
\* dropped, the queue is unchanged and no error reaches the caller.
C22_LogNeverBlocks == []LogNeverWaits /\ [][FullQueueDrops]_vars

\* C22 witness: the owner started the logger with its first call and logged
\* on; the consumer took nothing; the queue holds the first ten messages and
\* a later call was dropped.
C22_Witness ==
    /\ Len(mq) = LOG_MAX_MSGS
    /\ mq = accepted
    /\ accepted[1].id = 1
    /\ log_calls > LOG_MAX_MSGS
    /\ lop = "log" /\ lcaller = "owner"
    /\ ~forked

\* s is an initial part of t.
IsPrefix(s, t) == Len(s) <= Len(t) /\ s = SubSeq(t, 1, Len(s))

\* The real messages of a sequence of messages (the sentinel left out).
Real(s) == SelectSeq(s, LAMBDA m : m.text # EXIT_MSG.text)

\* The message the consumer has received and not yet written.
InFlight == IF log_thread = "write" THEN <<buf>> ELSE <<>>

\* The places of the sentinel among the accepted messages.
SentinelAt == {i \in 1 .. Len(accepted) : accepted[i] = EXIT_MSG}

\* The messages accepted ahead of the sentinel (all of them while no
\* sentinel has been accepted).
AheadOfSentinel ==
    IF SentinelAt = {} THEN accepted
    ELSE SubSeq(accepted, 1, (CHOOSE i \in SentinelAt : \A j \in SentinelAt : i <= j) - 1)

\* The file holds accepted messages only, in the order of their acceptance,
\* none twice and none skipped.
FileIsAcceptedPrefix == IsPrefix(log_file, Real(accepted))

\* Every accepted message is in exactly one place: written, being written,
\* or pending.
AcceptedOnce == Real(accepted) = log_file \o InFlight \o Real(mq)

\* The ids of the calls of logger_log whose message is in the file, and of
\* those whose message the queue accepted.
WrittenIds == {log_file[i].id : i \in 1 .. Len(log_file)}
AcceptedIds == {accepted[i].id : i \in 1 .. Len(accepted)}

DroppedNeverWritten == WrittenIds \subseteq AcceptedIds

\* C23: the log file receives messages in FIFO order: the file is always an
\* initial part of the sequence of accepted messages (an accepted message is
\* written once, a dropped one never), every accepted message is written,
\* being written or pending, and in the end every message accepted ahead of
\* the sentinel is in the file (10 pending and an 11th dropped: exactly the
\* first 10 appear, in order).
C23_FifoOnce ==
    /\ [](FileIsAcceptedPrefix /\ AcceptedOnce /\ DroppedNeverWritten)
    /\ <>[]IsPrefix(AheadOfSentinel, log_file)

\* C23 witness: ten messages were pending when the eleventh call was
\* dropped, and the file now holds exactly the first ten.
C23_Witness ==
    /\ Len(log_file) = LOG_MAX_MSGS
    /\ \A i \in 1 .. LOG_MAX_MSGS : log_file[i].id = i
    /\ log_file = accepted
    /\ log_calls > LOG_MAX_MSGS
    /\ is_running["owner"] = 1
    /\ ~forked

\* The consumer has observed the sentinel.
SentinelObserved == log_thread \in {"exited", "joined"}

\* logger_shutdown has returned from a running logger.
ShutdownReturned == log_thread = "joined" /\ lpc["owner"] = "idle"

\* Once the sentinel is observed, all that was accepted ahead of it is in
\* the file, and nothing else.
WrittenAheadOfSentinel == SentinelObserved => log_file = AheadOfSentinel

NothingWrittenAfterSentinel == SentinelObserved => log_file' = log_file

\* C24: no real message is lost ahead of the shutdown sentinel: when the
\* consumer observes the sentinel, and so when logger_shutdown returns, every
\* message enqueued before the sentinel has been written; the consumer writes
\* nothing after observing the sentinel.
C24_NothingLostAheadOfSentinel ==
    []WrittenAheadOfSentinel /\ [][NothingWrittenAfterSentinel]_vars

\* C24 witness: logger_shutdown has returned; messages were queued when the
\* sentinel was sent, they are all in the file, and a message the child sent
\* after the sentinel is not.
C24_Witness ==
    /\ ShutdownReturned
    /\ Len(log_file) >= 3
    /\ Len(Real(accepted)) > Len(log_file)
    /\ buf = EXIT_MSG

\* The owner is inside logger_shutdown, waiting in pthread_join.
ShutdownJoining == lpc["owner"] = "join"

\* C25: logger_shutdown on a running logger always completes: whatever the
\* queue held when it was called (nothing, some messages, or its full 10),
\* the consumer eventually observes the sentinel and stops, and the caller
\* eventually returns from the join.
C25_ShutdownCompletes == ShutdownJoining ~> ShutdownReturned

\* C25 witness: logger_shutdown was called while the queue held its 10
\* messages; the sentinel was refused and the caller waits in the join.
C25_Witness ==
    /\ ShutdownJoining
    /\ Len(mq) = LOG_MAX_MSGS
    /\ SentinelAt = {}

\* The logger's state apart from the record of the last call.
LoggerEffects ==
    <<mq, log_file, accepted, is_running, forked, lpc, lret, log_thread, buf, nthreads>>

OneConsumer == nthreads <= 1

\* The file changes only by the consumer thread appending the line it holds.
OnlyConsumerWrites ==
    log_file' # log_file =>
       /\ log_thread = "write"
       /\ log_thread' = "recv"
       /\ log_file' = Append(log_file, buf)

\* A call of logger_init that finds the logger running (the call shows as
\* the change of the last call made).
InitWhileRunning == already_running("owner") /\ lop # "init" /\ lop' = "init"

\* A call of logger_shutdown that finds the logger not running.
ShutdownWhileStopped ==
    ~already_running("owner") /\ lop # "shutdown" /\ lop' = "shutdown"

\* A call of logger_log by a process in which the logger is not running:
\* before its logger_init or after its logger_shutdown.
LogWhileStopped ==
    \E p \in LProcs : LogCalled /\ lcaller' = p /\ ~already_running(p)

NoOps ==
    /\ InitWhileRunning =>
          (UNCHANGED <<LoggerEffects, log_calls>> /\ lret'["owner"] = 0)
    /\ ShutdownWhileStopped => UNCHANGED <<LoggerEffects, log_calls>>
    /\ LogWhileStopped => UNCHANGED LoggerEffects

\* C26: at most one consumer thread exists and only it writes the log file:
\* logger_init while the logger is running changes nothing, returns 0 and
\* starts no second consumer; logger_shutdown while not running changes
\* nothing; logger_log in a process whose logger is not running (before init
\* or after shutdown) enqueues nothing.
C26_SingleConsumer == []OneConsumer /\ [][OnlyConsumerWrites /\ NoOps]_vars

\* C26 witness: the owner called logger_init again while its consumer was
\* writing; there is still one consumer and the queue was left alone.
C26_Witness ==
    /\ lop = "init"
    /\ nthreads = 1
    /\ log_thread = "write"
    /\ Len(mq) >= 2
    /\ Len(log_file) >= 1

(***************************************************************************)
(* The scheduler's shutdown                                                *)
(***************************************************************************)
\* The parent is inside scheduler_stop, waiting in pthread_join, after
\* scheduler_end_game has cleared game_in_progress.
StopJoining ==
    cpc["main"] = "join" /\ cop["main"].op = "stop" /\ ~sch.game_in_progress

\* scheduler_stop has returned 0.
StopReturned ==
    cpc["main"] = "idle" /\ cop["main"].op = "stop" /\ sret["main"] = 0

\* C27: after scheduler_end_game has set game_in_progress false the
\* scheduler thread exits, so the scheduler_stop that follows (which joins
\* the thread) eventually returns 0.
C27_StopReturns == StopJoining ~> StopReturned

\* C27 witness: the game was ended, scheduler_stop is waiting in the join,
\* and the scheduler thread is at the top of its loop.
C27_Witness ==
    /\ StopJoining
    /\ tpc = "loop"
    /\ sch.scheduler_running
    /\ scheduler_lock = {}

(***************************************************************************)
(* Lock discipline                                                         *)
(***************************************************************************)
\* The turn and player fields of a GameState, and its score fields.
TurnFields(s) ==
    <<s.game_state, s.num_players, s.active_player_count, s.current_turn, s.round,
      s.players>>

ScoreFields(s) == <<s.scores, s.total_games>>

\* The step is taken by a handler that holds mutex m.
HolderSteps(m) == \E h \in m : pc'[h] # pc[h]

\* A write of the turn and player fields is made by the holder of
\* game_mutex, or in a step that starts by taking the free mutex.
TurnWritesLocked ==
    TurnFields(shm') # TurnFields(shm) => (game_mutex = {} \/ HolderSteps(game_mutex))

\* A write of the score fields is made by the holder of score_mutex.
ScoreWritesLocked ==
    ScoreFields(shm') # ScoreFields(shm) => HolderSteps(score_mutex)

\* A write of the SchedulerState is made by the caller that holds
\* scheduler_lock, or by the scheduler thread in a step that starts by taking
\* the free lock.
SchedWritesLocked ==
    sch' # sch =>
       \/ \E c \in scheduler_lock : cpc[c] = "body" /\ cpc'[c] = "idle"
       \/ scheduler_lock = {} /\ tpc \in {"start", "tick"} /\ cpc' = cpc

\* C21: every write to the turn and player fields of the GameState is made
\* by a process holding game_mutex, every write to scores and total_games by
\* a process holding score_mutex, and every write to the SchedulerState after
\* scheduler_init by a process holding scheduler_lock.
C21_LockDiscipline ==
    [][TurnWritesLocked /\ ScoreWritesLocked /\ SchedWritesLocked]_vars

\* C21 witness: a handler holds game_mutex after its action has taken the
\* tax from its player, while another handler is waiting for the mutex.
C21_Witness ==
    \E p, q \in Slots :
        /\ p # q
        /\ game_mutex = {p}
        /\ pc[p] = "write_update"
        /\ shm.players[p].money = START_MONEY - TAX
        /\ pc[q] \in {"act_lock", "disc_lock", "woken"}

(***************************************************************************)
(* Shared regions: the claims                                              *)
(***************************************************************************)
\* A step that is a call of the named shared memory function.
MemCall(op) == mlast'.op = op /\ memvars' # memvars

\* clean_shared_memory removes the name.
CleanRemovesName == MemCall("clean") => shm_name' = 0

\* attach_shared_memory creates nothing, and without the name it gives NULL.
AttachNeverCreates ==
    MemCall("attach") =>
       /\ shm_name' = shm_name
       /\ region' = region
       /\ shm_name = 0 => (mlast'.ret = 0 /\ mapping' = mapping)

\* The players' mappings outlive the name: a player loses its mapping only by
\* its own detach, and what its region holds changes only by a write of a
\* process that maps it, or by init_shared_memory while the name stands for
\* it.
MappingsOutliveName ==
    \A q \in Players :
        /\ mapping'[q] # mapping[q] =>
              (mlast'.p = q /\ mlast'.op \in {"attach", "detach"})
        /\ (mapping[q] # 0 /\ mapping'[q] = mapping[q]
               /\ region'[mapping[q]] # region[mapping[q]]) =>
              \/ mlast'.op = "write" /\ mapping[mlast'.p] = mapping[q]
              \/ mlast'.op = "init" /\ shm_name = mapping[q]

\* C28: clean_shared_memory removes the name, so that a later
\* attach_shared_memory fails (NULL) until the region is created again;
\* attach never creates a region; and the mappings of processes that attached
\* before the destroy stay valid, with their contents, until they detach.
C28_DestroyKeepsMappings ==
    [][CleanRemovesName /\ AttachNeverCreates /\ MappingsOutliveName]_vars

\* C28 witness: the region was cleaned while player0 had it mapped with a
\* message written; player1's attach has just failed, and player0 still has
\* its mapping and its message.
C28_Witness ==
    /\ shm_name = 0
    /\ mlast = [op |-> "attach", p |-> "player1", ret |-> 0]
    /\ mapping["player0"] # 0
    /\ region[mapping["player0"]].counter[0] > 0
    /\ region[mapping["player0"]].buffer[0] = "move"

\* C29: creating the region again with the same size is idempotent: a second
\* init_shared_memory(name, size) succeeds and leaves the contents of the
\* region, as the attached processes see them, as they were.
C29_InitIdempotent ==
    [][(MemCall("init") /\ shm_name # 0) =>
          /\ mlast'.ret = 0
          /\ shm_name' = shm_name
          /\ region'[shm_name] = region[shm_name]]_vars

\* C29 witness: the parent and player0 have the named region mapped and
\* player0 has written its message there: the state in which a second
\* init_shared_memory meets contents.
C29_Witness ==
    /\ shm_name # 0
    /\ mapping["parent"] = shm_name
    /\ mapping["player0"] = shm_name
    /\ region[shm_name].counter[0] > 0
    /\ region[shm_name].buffer[0] = "move"

(***************************************************************************)
(* Synchronisation primitives: the claims                                  *)
(***************************************************************************)
\* A step in which the named sync function returns to process p.
SyncReturns(op, p) ==
    /\ ylast'.op = op
    /\ ylast'.p = p
    /\ syncvars' # syncvars
    /\ IF op = "wait"
       THEN ypc[p] = "sem_wait" /\ ypc'[p] = "idle"
       ELSE ypc' = ypc /\ intr' = intr

TryLockContract ==
    \A p \in YProcs :
        SyncReturns("trylock", p) =>
           IF mtx = {} THEN ylast'.ret = 0 /\ mtx' = {p}
           ELSE ylast'.ret = 1 /\ mtx' = mtx

TryWaitContract ==
    \A p \in YProcs :
        SyncReturns("trywait", p) =>
           IF sem > 0 THEN ylast'.ret = 0 /\ sem' = sem - 1
           ELSE ylast'.ret = 1 /\ sem' = 0

\* sync_sem_wait returns 0 only in the step that decrements, and while it
\* has not returned (interrupted and retrying) the value is left alone.
WaitContract ==
    \A p \in YProcs :
        /\ (SyncReturns("wait", p) /\ ylast'.ret = 0) => (sem > 0 /\ sem' = sem - 1)
        /\ (ypc[p] = "sem_wait" /\ ypc'[p] = "sem_wait" /\ intr' # intr) => sem' = sem

\* C30: sync_mutex_trylock returns 0 and takes the mutex when it is free,
\* and returns 1 leaving the holder as it is when it is held;
\* sync_sem_trywait returns 0 and decrements a positive counter, and returns
\* 1 leaving it at 0 when it is zero; sync_sem_wait returns 0 only after
\* decrementing, retrying when interrupted; the counter is never negative.
C30_TryAndWait ==
    /\ [](sem >= 0)
    /\ [][TryLockContract /\ TryWaitContract /\ WaitContract]_vars

\* C30 witness: p1 holds the mutex, p2's trylock has just returned 1, and p1
\* is inside sync_sem_wait on a zero semaphore after an interruption.
C30_Witness ==
    /\ mtx = {"p1"}
    /\ ylast = [op |-> "trylock", p |-> "p2", ret |-> 1]
    /\ ypc["p1"] = "sem_wait"
    /\ sem = 0
    /\ intr > 0

(***************************************************************************)
(* Invalid arguments                                                       *)
(***************************************************************************)
\* Caller c makes a call in this step (a call repeated with the same
\* argument and the same result right after itself changes nothing).
CallStep(c) ==
    /\ cpc[c] = "idle"
    /\ \/ cop'[c] # cop[c]
       \/ sret'[c] # sret[c]
       \/ cpc'[c] # cpc[c]

BadId(id) == id < 0 \/ id >= sch.num_players

\* connect, disconnect or is_my_turn with an id out of range: -1, the lock
\* not asked for, nothing of the scheduler changed.
BadIdFailsFast ==
    \A c \in Callers :
        ( /\ CallStep(c)
          /\ cop'[c].op \in {"connect", "disconnect", "is_my_turn"}
          /\ BadId(cop'[c].id) )
        => /\ sret'[c] = 0 - 1
           /\ cpc'[c] = "idle"
           /\ scheduler_lock' = scheduler_lock
           /\ sch' = sch

\* scheduler_init with a count out of range: -1, and still no scheduler
\* state.
BadCountFailsFast ==
    ( /\ CallStep("main")
      /\ cop'["main"].op = "init"
      /\ ~(cop'["main"].id \in MIN_PLAYERS .. MAX_PLAYERS) )
    => /\ sret'["main"] = 0 - 1
       /\ scheduler_state' = "NULL"
       /\ scheduler_state = "NULL"
       /\ sch' = sch

\* C31: scheduler_player_connect, scheduler_player_disconnect and
\* scheduler_is_my_turn return -1 for a player id outside 0..num_players-1
\* without taking the lock or changing any scheduler field, and
\* scheduler_init returns -1 for a player count outside 3..5 without creating
\* or initialising the scheduler state.
C31_InvalidArgsFailFast == [][BadIdFailsFast /\ BadCountFailsFast]_vars

\* A scheduler with connected players where the parent's connect and a
\* player's query were both refused for an id out of range.
C31_Witness ==
    /\ scheduler_state = "mapped"
    /\ sch.active_player_count > 0
    /\ cop["main"] = [op |-> "connect", id |-> sch.num_players]
    /\ sret["main"] = 0 - 1
    /\ cop["child"] = [op |-> "is_my_turn", id |-> 0 - 1]
    /\ sret["child"] = 0 - 1

(***************************************************************************)
(* What scheduler_advance_turn returns                                     *)
(***************************************************************************)
\* Slot r is the first connected and active slot of s met when going round
\* from the slot after the current one, looking at no more than num_players
\* slots.
FirstAfterCurrent(s, r) ==
    \E d \in 1 .. s.num_players :
        /\ r = (s.current_player_idx + d) % s.num_players
        /\ r \in Connected(s)
        /\ \A e \in 1 .. (d - 1) :
              (s.current_player_idx + e) % s.num_players \notin Connected(s)

\* A scheduler_advance_turn that returns a player returns the new current
\* player, the first eligible one after the old; the old current player only
\* when nobody else is eligible.
AdvanceReturnsNext ==
    \A c \in Callers :
        (Returns(c, "advance") /\ sret'[c] >= 0)
        => /\ sret'[c] = sch'.current_player_idx
           /\ FirstAfterCurrent(sch, sret'[c])
           /\ sret'[c] = sch.current_player_idx
                 => Connected(sch) = {sch.current_player_idx}

\* With every player connected, the k-th of three calls in a row returns
\* (c0 + k) mod n.
KthCallReturns ==
    Connected(sch) = 0 .. (sch.num_players - 1)
    => LET a == ThreeSchedulerAdvances(sch)
       IN  \A k \in 1 .. 3 :
               a[k][2] = (sch.current_player_idx + k) % sch.num_players

\* C32: a successful scheduler_advance_turn returns the id of the new current
\* player, the first slot connected and active in cyclic order from
\* (current+1) mod num_players within num_players slots (the current player
\* itself only when it is the sole eligible slot); with all n players
\* connected and no disconnects the k-th consecutive call returns
\* (c0 + k) mod n.
C32_AdvanceReturnsNext == []KthCallReturns /\ [][AdvanceReturnsNext]_vars

\* An advance has returned a player after passing over a slot that is not
\* connected, with at least two players in the game.
C32_Witness ==
    /\ cpc["main"] = "idle"
    /\ cop["main"].op = "advance"
    /\ sret["main"] = sch.current_player_idx
    /\ Cardinality(Connected(sch)) >= 2
    /\ (sch.current_player_idx + sch.num_players - 1) % sch.num_players
          \notin Connected(sch)
    /\ sch.total_moves >= 2

(***************************************************************************)
(* total_moves                                                             *)
(***************************************************************************)
\* total_moves goes up by exactly one on every successful turn advance and
\* is left alone by every other step.
MovesCountAdvances ==
    sch'.total_moves = sch.total_moves + (IF SuccessfulAdvance THEN 1 ELSE 0)

\* C35: total_moves never decreases, increases by exactly one on every
\* successful turn advance (scheduler_advance_turn, the scheduler thread's
\* tick, and the advance made when the current player disconnects), and is
\* unchanged by every other operation including a failed advance.
C35_TotalMovesCountsAdvances == [][MovesCountAdvances]_vars

\* The current player has disconnected and the turn went on to another
\* player.
C35_Witness ==
    /\ cpc["child"] = "idle"
    /\ cop["child"].op = "disconnect"
    /\ sret["child"] = 0
    /\ sch.active_player_count >= 1
    /\ sch.current_player_idx \in Connected(sch)
    /\ ~sch.is_connected[0]
    /\ sch.current_player_idx # 0
    /\ sch.total_moves = 0

\* (not a claim) what holds of total_moves in the code: it never decreases,
\* a returned scheduler_advance_turn adds one, and nothing but an advance
\* changes it.
MovesMonotonicOtherwise ==
    [][/\ sch'.total_moves >= sch.total_moves
       /\ (\E c \in Callers : Returns(c, "advance") /\ sret'[c] >= 0)
             => sch'.total_moves = sch.total_moves + 1
       /\ ~SuccessfulAdvance => sch'.total_moves = sch.total_moves]_vars

(***************************************************************************)
(* The scheduler thread                                                    *)
(***************************************************************************)
\* A step of scheduler_thread_main: no caller moves, and the scheduler state
\* or the thread's position changes.
ThreadStep ==
    /\ cpc' = cpc /\ cop' = cop /\ sret' = sret
    /\ sch' # sch \/ tpc' # tpc

\* The fields a turn advance writes.
TurnOf(s) ==
    <<s.current_player_idx, s.round_number, s.total_moves, s.turn_signal>>

\* The thread advances only with the game in progress and a player active.
ThreadAdvancesOnlyInGame ==
    (ThreadStep /\ TurnOf(sch') # TurnOf(sch))
    => (sch.game_in_progress /\ sch.active_player_count > 0)

ThreadNeverAdvances == ThreadStep => TurnOf(sch') = TurnOf(sch)

Applies(id) == pc[id] = "act_lock" /\ pc'[id] = "write_update"

\* The gameplay fields of player i: what a move changes.
Gameplay(s, i) == <<s.players[i].money, s.players[i].is_bankrupt>>

\* A registered player's gameplay fields change only in a step in which a
\* handler applies its client's action, and then the game is PLAYING and the
\* turn is that handler's, before the step and after it.
MutationOnOwnTurn ==
    (\E i \in 0 .. (shm.num_players - 1) : Gameplay(shm', i) # Gameplay(shm, i))
    => \E id \in Slots :
          /\ Applies(id)
          /\ shm.game_state = "PLAYING"
          /\ shm.current_turn = id
          /\ shm'.game_state = "PLAYING"
          /\ shm'.current_turn = id

\* An action other than 'r' changes nothing of the game, and the handler
\* goes on towards advance_turn.
OtherActionChangesNothing ==
    \A id \in Slots :
        (Applies(id) /\ action[id] # "r")
        => /\ shm' = shm
           /\ shm.game_state = "PLAYING" /\ shm.current_turn = id

\* After applying an action the handler calls advance_turn unless the write
\* of the update fails.
AppliedThenAdvances ==
    \A id \in Slots :
        /\ (pc[id] = "write_update" /\ pc'[id] # "write_update")
              => (pc'[id] = "advance" \/ (pc'[id] = "done" /\ drops' = drops + 1))
        /\ (pc[id] = "advance" /\ pc'[id] # "advance")
              => shm'.current_turn = advance_turn_move(shm).current_turn

Blocked(p) == pc[p] \in {"waiting", "woken"}

\* What the wait loop looks at.
TurnState(s) == <<s.game_state, s.current_turn>>

\* Whenever game_mutex is free, a handler inside pthread_cond_wait still has
\* to wait: every change that ends its wait was broadcast before the unlock.
BroadcastBeforeUnlock ==
    game_mutex = {}
    => \A p \in Slots : pc[p] = "waiting" => must_wait(shm, p)

\* A handler is woken only by a step that changes what the wait loop looks
\* at, or by the broadcast that follows such a change under the same hold of
\* game_mutex.
WakeAfterChange ==
    \A p \in Slots :
        (pc[p] = "waiting" /\ pc'[p] = "woken")
        => \/ TurnState(shm') # TurnState(shm)
           \/ \E q \in Slots : /\ pc[q] = "adv_scores"
                               /\ game_mutex = {q}
                               /\ shm.game_state = "GAME_OVER"

TurnComes(p) == Blocked(p) /\ shm.game_state = "PLAYING" /\ shm.current_turn = p

GameOverComes(p) == Blocked(p) /\ shm.game_state = "GAME_OVER"

\* C34: no wake-up is lost: every change of current_turn or game_state is
\* broadcast on turn_cond before game_mutex is released, so a handler blocked
\* waiting for its turn proceeds once current_turn is its id in PLAYING, and
\* every blocked handler wakes after GAME_OVER; the wake is never seen before
\* the change that caused it.
C34_NoLostWakeup ==
    /\ []BroadcastBeforeUnlock
    /\ [][WakeAfterChange]_vars
    /\ \A p \in Slots : TurnComes(p) ~> ~Blocked(p)
    /\ \A p \in Slots : GameOverComes(p) ~> ~Blocked(p)

\* Two handlers sit in pthread_cond_wait while a third, whose move ended the
\* game, is about to broadcast.
C34_Witness ==
    /\ shm.game_state = "GAME_OVER"
    /\ \E q \in Slots : pc[q] = "adv_scores" /\ game_mutex = {q}
    /\ Cardinality({p \in Slots : pc[p] = "waiting"}) >= 2

(***************************************************************************)
(* The winner reported to the clients                                      *)
(***************************************************************************)
\* The players whose wins counter advance_turn has incremented (the scores
\* start from zero and the server plays one game).
Credited(s) == {i \in Slots : s.scores[i].wins > 0}

\* A handler is reporting the result: it has called get_winner under
\* game_mutex (server.c:75) and writes MSG_WIN or MSG_LOSE.
Reporting(p) == pc[p] = "write_over" /\ game_mutex = {p}

\* C36: after GAME_OVER the winner reported to the clients agrees with the
\* score store: get_winner returns exactly the player whose wins counter was
\* incremented for this game, for a sole solvent player and at the lap cap
\* alike, and never -1 while a credited winner exists.
C36_WinnerMatchesScores ==
    \A p \in Slots :
        (Reporting(p) /\ Credited(shm) # {})
        => Credited(shm) = {get_winner(shm)}

\* A result is being reported for a game that ended at the lap cap with a
\* credited winner.
C36_Witness ==
    /\ \E p \in Slots : Reporting(p)
    /\ shm.game_state = "GAME_OVER"
    /\ shm.round >= RoundCap
    /\ Cardinality(Credited(shm)) = 1

\* (not a claim) get_winner reports -1 although a winner was credited.
ReportsSomeWinner ==
    \A p \in Slots :
        (Reporting(p) /\ Credited(shm) # {}) => get_winner(shm) >= 0

(***************************************************************************)
(* The order of game_mutex and score_mutex                                 *)
(***************************************************************************)
\* The holders of the mutex process p is about to lock: game_mutex at the
\* top of the loop (server.c:71), after the wait (94) and after the read
\* (126, 132); score_mutex inside advance_turn when the game ends
\* (game_state.c:204, 223, 155).
WaitsFor(p) ==
    IF pc[p] \in {"top", "woken", "act_lock", "disc_lock"} THEN game_mutex \ {p}
    ELSE IF pc[p] = "advance" /\ game_ends(advance_turn_move(shm))
    THEN score_mutex \ {p}
    ELSE {}

\* Every process of D waits for a mutex held inside D.
Deadlocked(D) ==
    /\ D # {}
    /\ \A p \in D : WaitsFor(p) # {} /\ WaitsFor(p) \subseteq D

NoCircularWait == \A D \in SUBSET Slots : ~Deadlocked(D)

\* score_mutex is held only by the holder of game_mutex.
ScoreInsideGame == score_mutex # {} => score_mutex = game_mutex

\* An acquisition of score_mutex is made holding game_mutex or nothing; an
\* acquisition of game_mutex is made by a process not holding score_mutex.
AcquireOrder ==
    /\ \A p \in score_mutex' \ score_mutex :
          game_mutex = {p} \/ p \notin game_mutex \cup score_mutex
    /\ \A p \in game_mutex' \ game_mutex : p \notin score_mutex

C38_LapCapEndsGame ==
    (shm.game_state = "PLAYING") ~> (shm.game_state = "GAME_OVER")

\* Player 0 is bankrupt and two other players, both solvent, go on playing.
C38_Witness ==
    /\ shm.game_state = "PLAYING"
    /\ shm.players[0].is_bankrupt = 1
    /\ Cardinality(solvent(shm)) >= 2
    /\ sent = MaxActions

\* (not a claim) as long as player 0 stays solvent the game does end.
EndsWhileZeroSolvent ==
    (shm.game_state = "PLAYING")
        ~> (shm.game_state = "GAME_OVER" \/ shm.players[0].is_bankrupt = 1)

(***************************************************************************)
(* The order of the turns                                                  *)
(***************************************************************************)
\* advance_turn is called in a game that goes on, with somebody eligible and
\* the set of eligible players left as it was.
AdvanceInPlay ==
    /\ AdvanceCalled
    /\ shm.game_state = "PLAYING" /\ shm'.game_state = "PLAYING"
    /\ Eligible(shm) # {}
    /\ Eligible(shm') = Eligible(shm)

\* C39: the turn order is a fair round-robin: while the set of eligible
\* players (connected, active, not bankrupt) is unchanged, every advance gives
\* the turn to the next eligible player in increasing index order modulo
\* num_players, so that between two turns of a player every other eligible
\* player has exactly one turn, and no ineligible player gets a turn.
C39_RoundRobin ==
    [][AdvanceInPlay
       => /\ shm'.current_turn \in Eligible(shm)
          /\ shm'.current_turn
                = NextInCycle(shm, shm.current_turn, Eligible(shm))]_vars

\* The turn is with a player whose connection was lost, while two eligible
\* players remain.
C39_Witness ==
    /\ shm.game_state = "PLAYING"
    /\ shm.players[shm.current_turn].is_active = 0
    /\ shm.players[shm.current_turn].is_bankrupt = 0
    /\ Cardinality(Eligible(shm)) >= 2

\* (not a claim) among players that are all connected, the order is the
\* round-robin over the solvent ones.
RoundRobinOfConnected ==
    [][(AdvanceInPlay /\ Eligible(shm) = solvent(shm))
       => shm'.current_turn
             = NextInCycle(shm, shm.current_turn, Eligible(shm))]_vars

====
